---------------------------- MODULE Spec2Model ----------------------------
(***************************************************************************)
(* Model of the inno_vtol_dynamics simulator: the InnoVtolDynamicsSim      *)
(* class (mixers, actuator lag, aerodynamics, thrusters, rigid-body        *)
(* integration, ground reset, calibration).                                *)
(*                                                                         *)
(* Numbers.  The program computes in IEEE doubles; the model computes in   *)
(* fixed point.  A physical quantity x is held as the integer x * Scale,   *)
(* a quaternion component q as q * QScale, a time t (seconds) as           *)
(* t * TimeScale.  Products and quotients round to the nearest integer,    *)
(* symmetrically around zero, so that -(a*b) = (-a)*b as for doubles.      *)
(* Sequences are 1-based: element idx of a C++ vector is element idx+1.    *)
(***************************************************************************)
EXTENDS Integers, Sequences, FiniteSets, TLC

VARIABLES
    state_,                 \* InnoVtolDynamicsSim::state_ (the VehicleState)
    prevCalibrationType,    \* the static local of calibrate()
    motorCmd,               \* the caller's command vector, as the caller holds it
    call,                   \* the last operation: its name, arguments and result
    ticks,                  \* ticks performed so far
    posed,                  \* setInitialPosition() has been called
    resetStreak,            \* history: how many steps followed a step that
                            \* triggered the ground reset, all of them with
                            \* a given kind of input (-1: no such run)
    node,                   \* the members of Uav_Dynamics
    now,                    \* std::chrono::system_clock::now(), as a time
    loop,                   \* proceedDynamics(): its position and locals
    readers                 \* publishToRos() and performLogging(): their
                            \* positions and what they have read

vars == << state_, prevCalibrationType, motorCmd, call, ticks, posed,
           resetStreak, node, now, loop, readers >>

---------------------------------------------------------------------------
(* Fixed-point arithmetic standing for the program's double arithmetic.    *)

Scale == 1000
QScale == 10000
TimeScale == 10000

Abs(x) == IF x < 0 THEN -x ELSE x

Sign(x) == IF x < 0 THEN -1 ELSE IF x > 0 THEN 1 ELSE 0

\* a / b rounded to the nearest integer, halves away from zero
RDiv(a, b) ==
    Sign(a) * Sign(b) * ((2 * Abs(a) + Abs(b)) \div (2 * Abs(b)))

\* the product of two Scale-quantities, as a Scale-quantity
Mul(a, b) == RDiv(a * b, Scale)

\* the quotient of two Scale-quantities, as a Scale-quantity
Div(a, b) == RDiv(a * Scale, b)

\* boost::algorithm::clamp(v, lo, hi)
clamp(v, lo, hi) == IF v < lo THEN lo ELSE IF hi < v THEN hi ELSE v

Zero3 == << 0, 0, 0 >>

Zero8 == << 0, 0, 0, 0, 0, 0, 0, 0 >>

Add3(a, b) == << a[1] + b[1], a[2] + b[2], a[3] + b[3] >>

Sub3(a, b) == << a[1] - b[1], a[2] - b[2], a[3] - b[3] >>

\* Eigen: a.cross(b)
Cross(a, b) ==
    << RDiv(a[2] * b[3] - a[3] * b[2], Scale),
       RDiv(a[3] * b[1] - a[1] * b[3], Scale),
       RDiv(a[1] * b[2] - a[2] * b[1], Scale) >>

\* Eigen: M * v for a 3x3 matrix given by rows
MatVec(M, v) ==
    << RDiv(M[1][1] * v[1] + M[1][2] * v[2] + M[1][3] * v[3], Scale),
       RDiv(M[2][1] * v[1] + M[2][2] * v[2] + M[2][3] * v[3], Scale),
       RDiv(M[3][1] * v[1] + M[3][2] * v[2] + M[3][3] * v[3], Scale) >>

Transpose(M) ==
    << << M[1][1], M[2][1], M[3][1] >>,
       << M[1][2], M[2][2], M[3][2] >>,
       << M[1][3], M[2][3], M[3][3] >> >>

\* Eigen: M.inverse() of a 3x3 matrix, by its adjugate and determinant
Inverse3(M) ==
    LET a == M[1][1]  b == M[1][2]  c == M[1][3]
        d == M[2][1]  e == M[2][2]  f == M[2][3]
        g == M[3][1]  h == M[3][2]  k == M[3][3]
        det == a * (e * k - f * h) - b * (d * k - f * g) + c * (d * h - e * g)
        dd == RDiv(det, Scale)
        E(x) == RDiv(x * Scale, dd)
    IN  << << E(e * k - f * h), E(c * h - b * k), E(b * f - c * e) >>,
           << E(f * g - d * k), E(a * k - c * g), E(c * d - a * f) >>,
           << E(d * h - e * g), E(b * g - a * h), E(a * e - b * d) >> >>

RECURSIVE SqrtIter(_, _)
SqrtIter(n, x) ==
    LET y == (x + (n \div x)) \div 2
    IN  IF y >= x THEN x ELSE SqrtIter(n, y)

\* sqrt(n), to the nearest integer
Sqrt(n) ==
    IF n <= 0 THEN 0
    ELSE LET f == SqrtIter(n, n)
         IN  IF n - f * f > f THEN f + 1 ELSE f

\* Quaternions are << w, x, y, z >>, as Eigen::Quaterniond(w, x, y, z).
NormSq(q) == q[1] * q[1] + q[2] * q[2] + q[3] * q[3] + q[4] * q[4]

\* Eigen: q.normalize(); no operation hands it a zero quaternion
normalize(q) ==
    LET n == Sqrt(NormSq(q))
    IN  IF n = 0 THEN q
        ELSE << RDiv(q[1] * QScale, n), RDiv(q[2] * QScale, n),
                RDiv(q[3] * QScale, n), RDiv(q[4] * QScale, n) >>

\* Eigen: q * Quaterniond(0, v[0], v[1], v[2]), the Hamilton product
QuatTimesPure(q, v) ==
    << RDiv(-(q[2] * v[1] + q[3] * v[2] + q[4] * v[3]), Scale),
       RDiv(q[1] * v[1] + q[3] * v[3] - q[4] * v[2], Scale),
       RDiv(q[1] * v[2] + q[4] * v[1] - q[2] * v[3], Scale),
       RDiv(q[1] * v[3] + q[2] * v[2] - q[3] * v[1], Scale) >>

\* Eigen: q.toRotationMatrix(), entries as Scale-quantities
toRotationMatrix(q) ==
    LET w == q[1]  x == q[2]  y == q[3]  z == q[4]
        QQ == (QScale * QScale) \div Scale
    IN  << << Scale - RDiv(2 * (y * y + z * z), QQ),
              RDiv(2 * (x * y - w * z), QQ),
              RDiv(2 * (x * z + w * y), QQ) >>,
           << RDiv(2 * (x * y + w * z), QQ),
              Scale - RDiv(2 * (x * x + z * z), QQ),
              RDiv(2 * (y * z - w * x), QQ) >>,
           << RDiv(2 * (x * z - w * y), QQ),
              RDiv(2 * (y * z + w * x), QQ),
              Scale - RDiv(2 * (x * x + y * y), QQ) >> >>

---------------------------------------------------------------------------
(* params_: the vehicle parameters the model is configured with            *)
(* (loadParams reads them from the parameter server).                      *)

\* params_.actuatorMax: 5 throttle channels, then aileron, elevator, rudder
actuatorMax == << 100000, 100000, 100000, 100000, 100000, 20000, 20000, 20000 >>

\* params_.actuatorMin
actuatorMin == << 0, 0, 0, 0, 0, -10000, -10000, -10000 >>

\* params_.mass, params_.gravity
mass == 2000

gravity == 9807

\* propellersLocationX/Y/Z and mainEngineLocationX
propLocX == 300

propLocY == 200

propLocZ == -50

mainEngineLocX == -250

\* params_.propellersLocation[0..4]
propellersLocation ==
    << <<  propLocX,  propLocY, propLocZ >>,
       << -propLocX, -propLocY, propLocZ >>,
       <<  propLocX, -propLocY, propLocZ >>,
       << -propLocX,  propLocY, propLocZ >>,
       << mainEngineLocX, 0, 0 >> >>

\* params_.inertia
inertia ==
    << << 200,   0, -20 >>,
       <<   0, 300,   0 >>,
       << -20,   0, 400 >> >>

\* tables_.prop: rows of << control, thrust, torque, current, rpm >>
prop ==
    << <<      0,     0,   0,    0,      0 >>,
       <<  50000,  4000, 100, 2000, 300000 >>,
       << 100000, 10000, 300, 6000, 600000 >> >>

\* tables_.actuatorTimeConstants, in time units
actuatorTimeConstants == << 250, 250, 250, 250, 500, 250, 250, 250 >>

---------------------------------------------------------------------------
(* ActuatorMixer                                                           *)

\* first closing loop of both mixers: throttle-class channels (idx 0..4)
ScaleThrottle(a, idx) == Mul(clamp(a, 0, Scale), actuatorMax[idx])

\* mutant of ScaleSurface: a negative deflection scaled by actuatorMax
ScaleSurfaceByMaxOnly(a, idx) ==
    Mul(clamp(a, -Scale, Scale), actuatorMax[idx])

\* second closing loop of both mixers: surface-class channels (idx 5..7)
ScaleSurface(a, idx) ==
    LET c == clamp(a, -Scale, Scale)
    IN  Mul(c, IF c >= 0 THEN actuatorMax[idx] ELSE -actuatorMin[idx])

ClampAndScale(actuators) ==
    [idx \in 1..8 |-> IF idx <= 5 THEN ScaleThrottle(actuators[idx], idx)
                                  ELSE ScaleSurface(actuators[idx], idx)]

\* mutant of StandardVTOLRaw: the rudder taken from the last raw channel
StandardVTOLRawWithRudder(cmd) ==
    << cmd[1], cmd[2], cmd[3], cmd[4], cmd[5],
       RDiv(cmd[6] - cmd[7], 2), -cmd[8], cmd[8] >>

\* the StandardVTOL layout before the clamps
StandardVTOLRaw(cmd) ==
    << cmd[1], cmd[2], cmd[3], cmd[4], cmd[5],
       RDiv(cmd[6] - cmd[7], 2),        \* aileron      roll
       -cmd[8],                         \* elevator     pitch
       0 >>                             \* rudder       yaw

\* mutant of mapCmdToActuatorStandardVTOL: a wrong-sized vector is clamped
\* to [0, 1] instead of being returned as it came
StandardVTOLClampsAnySize(cmd) ==
    IF Len(cmd) # 8 THEN [idx \in 1..Len(cmd) |-> clamp(cmd[idx], 0, Scale)]
    ELSE ClampAndScale(StandardVTOLRaw(cmd))

mapCmdToActuatorStandardVTOL(cmd) ==
    IF Len(cmd) # 8 THEN cmd
    ELSE ClampAndScale(StandardVTOLRaw(cmd))

\* mutant of InnoVTOLRaw: the aileron passed on without being re-centred
InnoVTOLRawNotRecentred(cmd) ==
    << cmd[1], cmd[2], cmd[3], cmd[4], cmd[8], cmd[5], cmd[6], cmd[7] >>

\* the InnoVTOL layout before the clamps: the aileron (raw idx 4) is
\* re-centred from [0, 1] to [-1, 1] before its clamp
InnoVTOLRaw(cmd) ==
    << cmd[1], cmd[2], cmd[3], cmd[4],
       cmd[8],
       (cmd[5] - (Scale \div 2)) * 2,   \* aileron
       cmd[6],                          \* elevator
       cmd[7] >>                        \* rudder

mapCmdToActuatorInnoVTOL(cmd) ==
    IF Len(cmd) # 8 THEN cmd
    ELSE ClampAndScale(InnoVTOLRaw(cmd))


---------------------------------------------------------------------------
(* ActuatorDynamics                                                        *)

\* ln(2.71) = 0.99695, as a PowScale-quantity
PowScale == 10000

Ln271 == 9970

\* e^(-y) for 0 <= y <= 1 (y and the result PowScale-quantities): the
\* Taylor series, term k being term k-1 times -y / k
RECURSIVE ExpNegSeries(_, _, _, _)
ExpNegSeries(y, k, term, sum) ==
    IF term = 0 \/ k > 12 THEN sum
    ELSE LET next == -RDiv(term * y, k * PowScale)
         IN  ExpNegSeries(y, k + 1, next, sum + next)

\* p * 2.71^(-n) for a natural n
RECURSIVE TimesPow271Neg(_, _)
TimesPow271Neg(p, n) ==
    IF n = 0 \/ p = 0 THEN p ELSE TimesPow271Neg(RDiv(p * 100, 271), n - 1)

\* pow(2.71, -dtSecs / tau) as a Scale-quantity, for dtSecs >= 0 (a time)
\* and tau > 0 (a Scale-quantity of seconds)
Pow271Neg(dtSecs, tau) ==
    LET unit == tau * (TimeScale \div Scale)    \* tau as a time
        whole == dtSecs \div unit
        frac == RDiv((dtSecs % unit) * PowScale, unit)
        y == RDiv(frac * Ln271, PowScale)
    IN  RDiv(TimesPow271Neg(ExpNegSeries(y, 1, PowScale, PowScale), whole),
             PowScale \div Scale)

\* mutant of LagStep: the gap taken from the previous value to the target
LagStepTowardTarget(prev, target, dtSecs, tau) ==
    LET cmd_delta == target - prev
    IN  prev + Mul(cmd_delta, Scale - Pow271Neg(dtSecs, tau))

\* cmd_delta = prev - cmd; cmd += cmd_delta * (1 - pow(2.71, -dtSecs/tau))
LagStep(prev, target, dtSecs, tau) ==
    LET cmd_delta == prev - target
    IN  target + Mul(cmd_delta, Scale - Pow271Neg(dtSecs, tau))

\* mutant of updateActuators: prevActuators is assigned after the loop
updateActuatorsStoringLate(s, cmd, dtSecs, beyond) ==
    LET prev == s.crntActuators
        filtered == [idx \in 1..8 |->
                       LagStep(prev[idx],
                               IF idx <= Len(cmd) THEN cmd[idx] ELSE beyond,
                               dtSecs, actuatorTimeConstants[idx])]
    IN  [state |-> [s EXCEPT !.prevActuators = filtered,
                             !.crntActuators = filtered],
         elements |-> filtered,
         cmd |-> [idx \in 1..Len(cmd) |->
                    IF idx <= 8 THEN filtered[idx] ELSE cmd[idx]],
         oob |-> Len(cmd) < 8]

\* updateActuators(cmd, dtSecs): the state, the 8 elements cmd[0..7] as
\* the loop leaves them, and whether the loop left the vector.  The loop
\* runs over idx < 8 whatever cmd.size(): an element past the end of cmd
\* reads as some value beyond (such an access is undefined behaviour).
updateActuators(s, cmd, dtSecs, beyond) ==
    LET prev == s.crntActuators
        filtered == [idx \in 1..8 |->
                       LagStep(prev[idx],
                               IF idx <= Len(cmd) THEN cmd[idx] ELSE beyond,
                               dtSecs, actuatorTimeConstants[idx])]
    IN  [state |-> [s EXCEPT !.prevActuators = prev,
                             !.crntActuators = filtered],
         elements |-> filtered,
         cmd |-> [idx \in 1..Len(cmd) |->
                    IF idx <= 8 THEN filtered[idx] ELSE cmd[idx]],
         oob |-> Len(cmd) < 8]

---------------------------------------------------------------------------
(* Table primitives (common_math)                                          *)

\* Math::lerp(a, b, t)
lerp(a, b, t) == a + Mul(b - a, t)

\* the linear scans: the first row idx in 1 .. rows-2 whose breakpoint has
\* reached value stops the scan; the row before it is returned (0-based)
RECURSIVE ScanIncreasing(_, _, _)
ScanIncreasing(table, value, row_idx) ==
    IF row_idx < Len(table) - 1 /\ ~(table[row_idx + 1][1] >= value)
    THEN ScanIncreasing(table, value, row_idx + 1)
    ELSE row_idx - 1

RECURSIVE ScanDecreasing(_, _, _)
ScanDecreasing(table, value, row_idx) ==
    IF row_idx < Len(table) - 1 /\ ~(table[row_idx + 1][1] <= value)
    THEN ScanDecreasing(table, value, row_idx + 1)
    ELSE row_idx - 1

\* mutant of findPrevRowIdxInMonotonicSequence: the last row whose
\* breakpoint has not passed value, a following row existing
findPrevRowIdxNotAfter(table, value) ==
    LET n == Len(table)
        rows == { i \in 0..(n - 2) :
                    IF table[1][1] > table[n][1]
                    THEN table[i + 1][1] >= value
                    ELSE table[i + 1][1] <= value }
    IN  IF rows = {} THEN 0
        ELSE CHOOSE i \in rows : \A j \in rows : j <= i

\* Math::findPrevRowIdxInMonotonicSequence(table, value): a 0-based row
findPrevRowIdxInMonotonicSequence(table, value) ==
    IF table[1][1] > table[Len(table)][1]
    THEN ScanDecreasing(table, value, 1)
    ELSE ScanIncreasing(table, value, 1)

---------------------------------------------------------------------------
(* PropulsionModel                                                         *)

\* what thrust[idx] and torque[idx] hold when thruster() assigns nothing
Unassigned == 0

\* mutant of thrusterOn: the row search runs to the last row, so that a
\* command beyond the last breakpoint finds no following row
thrusterOnUnlimitedSearch(propTable, actuator, oldRpm) ==
    LET rows == { i \in 1..Len(propTable) : propTable[i][1] < actuator }
        prev_idx == IF rows = {} THEN 0
                    ELSE (CHOOSE i \in rows : \A j \in rows : j <= i) - 1
        next_idx == prev_idx + 1
    IN  IF next_idx < Len(propTable)
        THEN LET prev_row == propTable[prev_idx + 1]
                 next_row == propTable[next_idx + 1]
                 t == Div(actuator - prev_row[1], next_row[1] - prev_row[1])
             IN  [thrust |-> lerp(prev_row[2], next_row[2], t),
                  torque |-> lerp(prev_row[3], next_row[3], t),
                  rpm    |-> lerp(prev_row[5], next_row[5], t),
                  assigned |-> TRUE]
        ELSE [thrust |-> Unassigned, torque |-> Unassigned, rpm |-> oldRpm,
              assigned |-> FALSE]

\* the body of thruster() over a propeller table: the three results and
\* whether they were assigned; rpm keeps its old value and thrust and
\* torque stay unassigned when no next row exists
thrusterOn(propTable, actuator, oldRpm) ==
    LET prev_idx == findPrevRowIdxInMonotonicSequence(propTable, actuator)
        next_idx == prev_idx + 1
    IN  IF next_idx < Len(propTable)
        THEN LET prev_row == propTable[prev_idx + 1]
                 next_row == propTable[next_idx + 1]
                 t == Div(actuator - prev_row[1], next_row[1] - prev_row[1])
             IN  [thrust |-> lerp(prev_row[2], next_row[2], t),
                  torque |-> lerp(prev_row[3], next_row[3], t),
                  rpm    |-> lerp(prev_row[5], next_row[5], t),
                  assigned |-> TRUE]
        ELSE [thrust |-> Unassigned, torque |-> Unassigned, rpm |-> oldRpm,
              assigned |-> FALSE]

\* thruster(actuator, thrust, torque, rpm), reading tables_.prop
thruster(actuator, oldRpm) == thrusterOn(prop, actuator, oldRpm)

---------------------------------------------------------------------------
(* The vehicle state and the operations that set it up                     *)

\* fields the constructor leaves unset; no operation reads them before
\* setInitialPosition and the first tick have written them
Unset3 == Zero3

UnsetQ == << 0, 0, 0, 0 >>

\* InnoVtolDynamicsSim(): Fspecific is built from params_.gravity, which is
\* not loaded yet (g is whatever the member holds at that time)
Constructed(g) ==
    [position        |-> Unset3,
     attitude        |-> UnsetQ,
     initialPose     |-> Unset3,
     initialAttitude |-> UnsetQ,
     linearVel       |-> Zero3,
     angularVel      |-> Zero3,
     linearAccel     |-> Unset3,
     angularAccel    |-> Unset3,
     windVelocity    |-> Zero3,
     windVariance    |-> 0,
     accelBias       |-> Zero3,
     gyroBias        |-> Zero3,
     Fspecific       |-> << 0, 0, -g >>,
     Faero           |-> Unset3,
     Maero           |-> Unset3,
     Flift           |-> Unset3,
     Fdrug           |-> Unset3,
     Fside           |-> Unset3,
     Msteer          |-> Unset3,
     Mairspeed       |-> Unset3,
     Ftotal          |-> Unset3,
     Mtotal          |-> Unset3,
     Fmotors         |-> << Unset3, Unset3, Unset3, Unset3, Unset3 >>,
     Mmotors         |-> << Unset3, Unset3, Unset3, Unset3, Unset3 >>,
     MmotorsTotal    |-> Unset3,
     bodylinearVel   |-> Unset3,
     motorsRpm       |-> << 0, 0, 0, 0, 0 >>,
     prevActuators   |-> Zero8,
     crntActuators   |-> Zero8]

setInitialPosition(s, position, attitude) ==
    [s EXCEPT !.position = position,
              !.attitude = attitude,
              !.initialPose = position,
              !.initialAttitude = attitude]

setInitialVelocity(s, linearVelocity, angularVelocity) ==
    [s EXCEPT !.linearVel = linearVelocity,
              !.angularVel = angularVelocity]

\* mutant of land: the rpm loop left out
landKeepsRpm(s) ==
    [s EXCEPT !.Fspecific = << 0, 0, -gravity >>,
              !.linearVel = Zero3,
              !.position = << s.position[1], s.position[2], 0 >>,
              !.attitude = s.initialAttitude,
              !.angularVel = Zero3]

\* mutant of land: the angular velocity kept
landKeepsAngularVel(s) ==
    [s EXCEPT !.Fspecific = << 0, 0, -gravity >>,
              !.linearVel = Zero3,
              !.position = << s.position[1], s.position[2], 0 >>,
              !.attitude = s.initialAttitude,
              !.motorsRpm = << 0, 0, 0, 0, 0 >>]

land(s) ==
    [s EXCEPT !.Fspecific = << 0, 0, -gravity >>,
              !.linearVel = Zero3,
              !.position = << s.position[1], s.position[2], 0 >>,
              !.attitude = s.initialAttitude,
              !.angularVel = Zero3,
              !.motorsRpm = << 0, 0, 0, 0, 0 >>]

---------------------------------------------------------------------------
(* RigidBodyIntegrator                                                     *)

calculateRotationMatrix(attitude) == Transpose(toRotationMatrix(attitude))

\* inertia.inverse() * (moment - prevAngVel.cross(inertia * prevAngVel))
calculateAngularAccel(inertiaM, moment, prevAngVel) ==
    MatVec(Inverse3(inertiaM),
           Sub3(moment, Cross(prevAngVel, MatVec(inertiaM, prevAngVel))))

\* attitude.coeffs() += (attitude * (0, angularVel)).coeffs() * 0.5 * dt,
\* then normalize()
IntegrateAttitude(attitude, angularVel, dt) ==
    LET attitudeDelta == QuatTimesPure(attitude, angularVel)
    IN  normalize(<< attitude[1] + RDiv(attitudeDelta[1] * dt, 2 * TimeScale),
                     attitude[2] + RDiv(attitudeDelta[2] * dt, 2 * TimeScale),
                     attitude[3] + RDiv(attitudeDelta[3] * dt, 2 * TimeScale),
                     attitude[4] + RDiv(attitudeDelta[4] * dt, 2 * TimeScale) >>)

\* v * dt for a vector of Scale-quantities and a time
TimesDt(v, dt) ==
    << RDiv(v[1] * dt, TimeScale), RDiv(v[2] * dt, TimeScale),
       RDiv(v[3] * dt, TimeScale) >>

\* a / b truncated toward zero, as a double converted to int
TruncDiv(a, b) == Sign(a) * Sign(b) * (Abs(a) \div Abs(b))

\* std::accumulate(first, last, 0) over doubles: the accumulator is an int,
\* so each partial sum is truncated to an integer
RECURSIVE AccumulateInt(_, _, _)
AccumulateInt(values, i, acc) ==
    IF i > Len(values) THEN acc
    ELSE AccumulateInt(values, i + 1, TruncDiv(acc * Scale + values[i], Scale))

\* the doubles between &Mmotors[0][0] and &Mmotors[5][0]
FlattenMmotors(M) ==
    [i \in 1..15 |-> M[((i - 1) \div 3) + 1][((i - 1) % 3) + 1]]

\* the thruster loop: the three results of thruster() for each motor
Thrusters(actuator, motorsRpm) ==
    [idx \in 1..5 |-> thruster(actuator[idx], motorsRpm[idx])]

\* state_.Fmotors: the lift motors push along -z, the main engine along x
ThrustForces(th) ==
    [idx \in 1..5 |-> IF idx <= 4 THEN << 0, 0, -th[idx].thrust >>
                                  ELSE << th[idx].thrust, 0, 0 >>]

\* mutant of motorTorquesInBodyCS: the four lift rotors react the same way
motorTorquesSameSpin(th) ==
    << << 0, 0, th[1].torque >>,
       << 0, 0, th[2].torque >>,
       << 0, 0, th[3].torque >>,
       << 0, 0, th[4].torque >>,
       << -th[5].torque, 0, 0 >> >>

motorTorquesInBodyCS(th) ==
    << << 0, 0, th[1].torque >>,
       << 0, 0, th[2].torque >>,
       << 0, 0, -th[3].torque >>,
       << 0, 0, -th[4].torque >>,
       << -th[5].torque, 0, 0 >> >>

\* state_.Mmotors[idx] = motorTorquesInBodyCS[idx]
\*                       + propellersLocation[idx].cross(Fmotors[idx])
ThrustMoments(th) ==
    [idx \in 1..5 |->
        Add3(motorTorquesInBodyCS(th)[idx],
             Cross(propellersLocation[idx], ThrustForces(th)[idx]))]

\* std::accumulate(&v[0], &v[5], init) over five vectors
Accumulate5(v, init) ==
    Add3(Add3(Add3(Add3(Add3(init, v[1]), v[2]), v[3]), v[4]), v[5])

\* v / params_.mass and v * params_.mass
OverMass(v) == << Div(v[1], mass), Div(v[2], mass), Div(v[3], mass) >>

TimesMass(v) == << Mul(v[1], mass), Mul(v[2], mass), Mul(v[3], mass) >>

\* the motors' part of calculateNewState: rpm, Fmotors, Mmotors
MotorsApplied(s, th) ==
    [s EXCEPT !.motorsRpm = [idx \in 1..5 |-> th[idx].rpm],
              !.Fmotors = ThrustForces(th),
              !.Mmotors = ThrustMoments(th)]

\* the rotational part: Mtotal, angularAccel, angularVel, attitude
RotationIntegrated(s, Maero, dt) ==
    LET MtotalInBodyCS == Accumulate5(s.Mmotors, Maero)
        angularAccel == calculateAngularAccel(inertia, MtotalInBodyCS, s.angularVel)
        angularVel == Add3(s.angularVel, TimesDt(angularAccel, dt))
    IN  [s EXCEPT !.Mtotal = MtotalInBodyCS,
                  !.angularAccel = angularAccel,
                  !.angularVel = angularVel,
                  !.attitude = IntegrateAttitude(s.attitude, angularVel, dt)]

\* the translational part: Ftotal, linearAccel, linearVel, position.
\* rotationMatrix.inverse(): the matrix is a rotation (the attitude was
\* normalized just before), so its inverse is its transpose
TranslationIntegrated(s, Fspecific, rotationMatrix, dt) ==
    LET Ftotal == TimesMass(Add3(Fspecific,
                                 MatVec(rotationMatrix, << 0, 0, gravity >>)))
        linearAccel == OverMass(MatVec(Transpose(rotationMatrix), Ftotal))
        linearVel == Add3(s.linearVel, TimesDt(linearAccel, dt))
    IN  [s EXCEPT !.Ftotal = Ftotal,
                  !.linearAccel = linearAccel,
                  !.linearVel = linearVel,
                  !.position = Add3(s.position, TimesDt(linearVel, dt))]

\* the three things the ground test and the stored parameters need: the
\* state as integrated, the specific force and the rotation matrix
IntegratedWith(s, Fspecific, rotationMatrix, dt) ==
    << TranslationIntegrated(s, Fspecific, rotationMatrix, dt),
       Fspecific,
       rotationMatrix >>

\* the state after the integration, before the ground test; the second
\* component is the specific force of this step
MotionIntegrated(s, Maero, Faero, dt) ==
    IntegratedWith(RotationIntegrated(s, Maero, dt),
                   OverMass(Accumulate5(s.Fmotors, Faero)),
                   calculateRotationMatrix(
                       RotationIntegrated(s, Maero, dt).attitude),
                   dt)

Integrated(s, Maero, Faero, actuator, dt) ==
    MotionIntegrated(MotorsApplied(s, Thrusters(actuator, s.motorsRpm)),
                     Maero, Faero, dt)

\* if(state_.position[2] >= 0) land(); else state_.Fspecific = Fspecific;
GroundContact(si, Fspecific) ==
    IF si.position[3] >= 0 THEN land(si)
    ELSE [si EXCEPT !.Fspecific = Fspecific]

\* the STORE_SIM_PARAMETERS block
StoreSimParameters(s, rotationMatrix) ==
    LET total == AccumulateInt(FlattenMmotors(s.Mmotors), 1, 0) * Scale
    IN  [s EXCEPT !.MmotorsTotal = << total, total, total >>,
                  !.bodylinearVel = MatVec(rotationMatrix, s.linearVel)]

\* the rest of calculateNewState once r has been integrated
AfterIntegration(r) == StoreSimParameters(GroundContact(r[1], r[2]), r[3])

calculateNewState(s, Maero, Faero, actuator, dt) ==
    AfterIntegration(Integrated(s, Maero, Faero, actuator, dt))


---------------------------------------------------------------------------
(* AerodynamicsModel                                                       *)

\* the aerodynamic parameters and tables: configuration data, here small
\* tables of the same layout (first column the breakpoint)
atmoRho == 1225

wingArea == 400

characteristicLength == 400

airspeed_table == << << 5000 >>, << 20000 >>, << 40000 >> >>

actuator_table == << << -20000 >>, << 0 >>, << 20000 >> >>

AoS_table == << << -90000 >>, << 0 >>, << 90000 >> >>

CLPolynomial ==
    << << 5000, 0, 0, 0, 0, 0, 55, 380 >>,
       << 20000, 0, 0, 0, 0, -1, 55, 440 >>,
       << 40000, 0, 0, 0, 0, -1, 54, 460 >> >>

CSPolynomial ==
    << << 5000, 0, 0, 0, 0, 0, 2, 10 >>,
       << 20000, 0, 0, 0, 0, 0, 3, 20 >>,
       << 40000, 0, 0, 0, 0, 0, 3, 30 >> >>

CDPolynomial ==
    << << 5000, 0, 0, 1, 0, 40 >>,
       << 20000, 0, 0, 1, 0, 30 >>,
       << 40000, 0, 0, 1, 1, 30 >> >>

CmxPolynomial ==
    << << 5000, 0, 0, 0, 0, 0, 1, 5 >>,
       << 20000, 0, 0, 0, 0, 0, 1, 8 >>,
       << 40000, 0, 0, 0, 0, 0, 2, 8 >> >>

CmyPolynomial ==
    << << 5000, 0, 0, 0, 0, 0, -4, 20 >>,
       << 20000, 0, 0, 0, 0, 0, -5, 30 >>,
       << 40000, 0, 0, 0, 0, 0, -5, 40 >> >>

CmzPolynomial ==
    << << 5000, 0, 0, 0, 0, 0, 1, -3 >>,
       << 20000, 0, 0, 0, 0, 0, 1, -4 >>,
       << 40000, 0, 0, 0, 0, 0, 2, -4 >> >>

\* the grids: one row per airspeed breakpoint, one column per breakpoint
\* of the other axis
CS_rudder == << << 60, 0, -60 >>, << 80, 0, -80 >>, << 90, 0, -90 >> >>

CS_beta == << << -200, 0, 200 >>, << -250, 0, 250 >>, << -300, 0, 300 >> >>

CmxAileron == << << 4, 5, 4 >>, << 6, 7, 6 >>, << 7, 8, 7 >> >>

CmyElevator == << << 8, 10, 12 >>, << 10, 12, 14 >>, << 11, 13, 15 >> >>

CmzRudder == << << 3, 4, 3 >>, << 4, 5, 4 >>, << 5, 6, 5 >> >>

\* 3.1415
PI == 3142

\* asin on [0, 1] by its values at 0, 15, 30, 45, 60, 75 and 90 degrees
AsinTable ==
    << << 0, 0 >>, << 259, 262 >>, << 500, 524 >>, << 707, 785 >>,
       << 866, 1047 >>, << 966, 1309 >>, << 1000, 1571 >> >>

asin(x) ==
    LET a == Abs(x)
        i == findPrevRowIdxInMonotonicSequence(AsinTable, a) + 1
        lo == AsinTable[i]
        hi == AsinTable[i + 1]
    IN  Sign(x) * (lo[2] + RDiv((a - lo[1]) * (hi[2] - lo[2]), hi[1] - lo[1]))

\* the Euclidean norm of a vector of Scale-quantities; large vectors are
\* measured in coarser units to keep the squares in range
Norm3(v) ==
    LET m == Abs(v[1]) + Abs(v[2]) + Abs(v[3])
        k == (m \div 16384) + 1
        a == RDiv(v[1], k)
        b == RDiv(v[2], k)
        c == RDiv(v[3], k)
    IN  k * Sqrt(a * a + b * b + c * c)

\* Eigen's normalized(): the zero vector is returned as it is
normalized(v) ==
    LET n == Norm3(v)
    IN  IF n = 0 THEN v ELSE << Div(v[1], n), Div(v[2], n), Div(v[3], n) >>

Scaled3(k, v) == << Mul(k, v[1]), Mul(k, v[2]), Mul(k, v[3]) >>

\* calculateWind(): noise holds the three samples of distribution_
calculateWind(s, noise) ==
    LET sd == Sqrt(s.windVariance * Scale)
    IN  << Mul(sd, noise[1]) + s.windVelocity[1],
           Mul(sd, noise[2]) + s.windVelocity[2],
           Mul(sd, noise[3]) + s.windVelocity[3] >>

calculateAirSpeed(rotationMatrix, velocity, windSpeed) ==
    LET airspeed == MatVec(rotationMatrix, Sub3(velocity, windSpeed))
    IN  IF \E i \in 1..3 : Abs(airspeed[i]) > 40000
        THEN [i \in 1..3 |-> clamp(airspeed[i], -40000, 40000)]
        ELSE airspeed

\* mutant of calculateDynamicPressure: the factor 0.5 inside the function
calculateDynamicPressureHalved(airSpeedMod) ==
    RDiv(RDiv(RDiv(RDiv(atmoRho * airSpeedMod, Scale) * airSpeedMod, Scale)
              * wingArea, Scale), 2)

calculateDynamicPressure(airSpeedMod) ==
    Mul(Mul(Mul(atmoRho, airSpeedMod), airSpeedMod), wingArea)

calculateAnglesOfAtack(airSpeed) ==
    LET A == Norm3(<< airSpeed[1], 0, airSpeed[3] >>)
    IN  IF A < 1 THEN 0
        ELSE LET ratio == clamp(Div(airSpeed[3], A), -Scale, Scale)
                 angle == IF airSpeed[1] > 0 THEN asin(ratio)
                          ELSE PI - asin(ratio)
             IN  IF angle > PI THEN angle - 2 * PI ELSE angle

calculateAnglesOfSideslip(airSpeed) ==
    LET B == Norm3(airSpeed)
    IN  IF B < 1 THEN 0
        ELSE asin(clamp(Div(airSpeed[2], B), -Scale, Scale))

\* radians to degrees: angle * 180 / 3.1415
Degrees(angle) == RDiv(angle * 36000, 628)

\* Math::polyval(coeffs, x): the highest power first
RECURSIVE polyvalFrom(_, _, _, _)
polyvalFrom(coeffs, x, i, acc) ==
    IF i > Len(coeffs) THEN acc
    ELSE polyvalFrom(coeffs, x, i + 1, Mul(acc, x) + coeffs[i])

polyval(coeffs, x) == polyvalFrom(coeffs, x, 1, 0)

\* mutant of calculatePolynomialUsingTable: the test of the airspeed step
\* is left out (the quotient by a zero step is taken as 0)
calculatePolynomialWithoutStepTest(table, airSpeedMod, polynomialCoeffs) ==
    LET rows == Len(table)
        cols == IF rows = 0 THEN 0 ELSE Len(table[1])
        failed == [ok |-> FALSE, coeffs |-> polynomialCoeffs,
                   divided |-> FALSE]
    IN  IF cols < 2 \/ rows < 2 \/ Len(polynomialCoeffs) < cols - 1
        THEN failed
        ELSE
          LET prevRowIdx == findPrevRowIdxInMonotonicSequence(table, airSpeedMod)
              prevRow == table[prevRowIdx + 1]
              nextRow == table[prevRowIdx + 2]
              airspeedStep == nextRow[1] - prevRow[1]
              delta == IF airspeedStep = 0 THEN 0
                       ELSE Div(airSpeedMod - prevRow[1], airspeedStep)
          IN  [ok |-> TRUE,
               divided |-> TRUE,
               coeffs |->
                 [i \in 1..Len(polynomialCoeffs) |->
                    IF i <= cols - 1
                    THEN lerp(prevRow[i + 1], nextRow[i + 1], delta)
                    ELSE polynomialCoeffs[i]]]

\* calculatePolynomialUsingTable(table, airSpeedMod, polynomialCoeffs): the
\* value returned, the coefficient vector afterwards and whether the
\* quotient by airspeedStep was taken
calculatePolynomialUsingTable(table, airSpeedMod, polynomialCoeffs) ==
    LET rows == Len(table)
        cols == IF rows = 0 THEN 0 ELSE Len(table[1])
        failed == [ok |-> FALSE, coeffs |-> polynomialCoeffs,
                   divided |-> FALSE]
    IN  IF cols < 2 \/ rows < 2 \/ Len(polynomialCoeffs) < cols - 1
        THEN failed
        ELSE
          LET prevRowIdx == findPrevRowIdxInMonotonicSequence(table, airSpeedMod)
              nextRowIdx == prevRowIdx + 1
          IN  IF prevRowIdx + 2 > rows THEN failed
              ELSE
                LET prevRow == table[prevRowIdx + 1]
                    nextRow == table[nextRowIdx + 1]
                    airspeedStep == nextRow[1] - prevRow[1]
                IN  IF Abs(airspeedStep) < 1 THEN failed
                    ELSE
                      LET delta == Div(airSpeedMod - prevRow[1], airspeedStep)
                      IN  [ok |-> TRUE,
                           divided |-> TRUE,
                           coeffs |->
                             [i \in 1..Len(polynomialCoeffs) |->
                                IF i <= cols - 1
                                THEN lerp(prevRow[i + 1], nextRow[i + 1], delta)
                                ELSE polynomialCoeffs[i]]]

\* the vector x negated, as in -tables_.actuator
Negated(x) == [i \in 1..Len(x) |-> << -x[i][1] >>]

griddata(x, y, z, x_val, y_val) ==
    LET x1_idx == findPrevRowIdxInMonotonicSequence(x, x_val) + 1
        y1_idx == findPrevRowIdxInMonotonicSequence(y, y_val) + 1
        x2_idx == x1_idx + 1
        y2_idx == y1_idx + 1
        x1 == x[x1_idx][1]
        x2 == x[x2_idx][1]
        y1 == y[y1_idx][1]
        y2 == y[y2_idx][1]
        Q11 == z[y1_idx][x1_idx]
        Q12 == z[y2_idx][x1_idx]
        Q21 == z[y1_idx][x2_idx]
        Q22 == z[y2_idx][x2_idx]
        R1 == RDiv((x2 - x_val) * Q11 + (x_val - x1) * Q21, x2 - x1)
        R2 == RDiv((x2 - x_val) * Q12 + (x_val - x1) * Q22, x2 - x1)
    IN  RDiv((y2 - y_val) * R1 + (y_val - y1) * R2, y2 - y1)

\* polynomialCoeffs(7) before the first table has filled it
UnsetCoeffs == << 0, 0, 0, 0, 0, 0, 0 >>

\* calculateAerodynamics(...): Faero, Maero and the stored vectors
calculateAerodynamics(airspeed, AoA, AoS, aileron_pos, elevator_pos, rudder_pos) ==
    LET AoA_deg == clamp(Degrees(AoA), -45000, 45000)
        AoS_deg == clamp(Degrees(AoS), -90000, 90000)
        airspeedMod == Norm3(airspeed)
        dynamicPressure == calculateDynamicPressure(airspeedMod)
        airspeedModClamped == clamp(airspeedMod, 5000, 40000)
        halfQ == RDiv(dynamicPressure, 2)
        liftDir == Cross(<< 0, Scale, 0 >>, normalized(airspeed))
        pCL == calculatePolynomialUsingTable(CLPolynomial, airspeedModClamped,
                                             UnsetCoeffs).coeffs
        CL == polyval(pCL, AoA_deg)
        FL == Scaled3(CL, liftDir)
        pCS == calculatePolynomialUsingTable(CSPolynomial, airspeedModClamped,
                                             pCL).coeffs
        CS == polyval(pCS, AoA_deg)
        CSrudder == griddata(Negated(actuator_table), airspeed_table, CS_rudder,
                             rudder_pos, airspeedModClamped)
        CSbeta == griddata(Negated(AoS_table), airspeed_table, CS_beta,
                           AoS_deg, airspeedModClamped)
        FS == Scaled3(CS + CSrudder + CSbeta, Cross(airspeed, liftDir))
        pCD == calculatePolynomialUsingTable(CDPolynomial, airspeedModClamped,
                                             pCS).coeffs
        CD == polyval(SubSeq(pCD, 1, 5), AoA_deg)
        FD == Scaled3(CD, normalized(<< -airspeed[1], -airspeed[2],
                                        -airspeed[3] >>))
        pCmx == calculatePolynomialUsingTable(CmxPolynomial, airspeedModClamped,
                                              pCD).coeffs
        Cmx == polyval(pCmx, AoA_deg)
        pCmy == calculatePolynomialUsingTable(CmyPolynomial, airspeedModClamped,
                                              pCmx).coeffs
        Cmy == polyval(pCmy, AoA_deg)
        pCmz == calculatePolynomialUsingTable(CmzPolynomial, airspeedModClamped,
                                              pCmy).coeffs
        Cmz == -polyval(pCmz, AoA_deg)
        Cmx_aileron == griddata(actuator_table, airspeed_table, CmxAileron,
                                aileron_pos, airspeedModClamped)
        Cmy_elevator == griddata(actuator_table, airspeed_table, CmyElevator,
                                 Abs(elevator_pos), airspeedModClamped)
        Cmz_rudder == griddata(actuator_table, airspeed_table, CmzRudder,
                               rudder_pos, airspeedModClamped)
        steer == << Mul(Cmx_aileron, aileron_pos),
                    Mul(Cmy_elevator, elevator_pos),
                    Mul(Cmz_rudder, rudder_pos) >>
        halfQL == Mul(halfQ, characteristicLength)
    IN  [Faero |-> Scaled3(halfQ, Add3(Add3(FL, FS), FD)),
         Maero |-> Scaled3(halfQL, << Cmx + steer[1], Cmy + steer[2],
                                      Cmz + steer[3] >>),
         Flift |-> Scaled3(halfQL, FL),
         Fdrug |-> Scaled3(halfQL, FD),
         Fside |-> Scaled3(halfQL, FS),
         Msteer |-> Scaled3(halfQL, steer),
         Mairspeed |-> Scaled3(halfQL, << Cmx, Cmy, Cmz >>)]

---------------------------------------------------------------------------
(* The tick: process()                                                     *)

\* mutant of LagTarget: the mixer applied whatever the flag
LagTargetAlwaysMixed(motorCmd_, isCmdPercent) ==
    mapCmdToActuatorInnoVTOL(motorCmd_)

\* auto actuators = isCmdPercent ? mapCmdToActuatorInnoVTOL(motorCmd) : motorCmd;
\* a copy, the vector updateActuators() then filters in place
LagTarget(motorCmd_, isCmdPercent) ==
    IF isCmdPercent THEN mapCmdToActuatorInnoVTOL(motorCmd_) ELSE motorCmd_

setWindParameter(s, windMeanVelocity, windVariance) ==
    [s EXCEPT !.windVelocity = windMeanVelocity,
              !.windVariance = windVariance]

\* calculateAerodynamics() called with the angles of the airspeed and the
\* three control surfaces actuators[5], actuators[6], actuators[7]
AerodynamicsAt(airSpeed, a) ==
    calculateAerodynamics(airSpeed,
                          calculateAnglesOfAtack(airSpeed),
                          calculateAnglesOfSideslip(airSpeed),
                          a[6], a[7], a[8])

\* what calculateAerodynamics() stores in state_
WithAerodynamics(s, aero) ==
    [s EXCEPT !.Faero = aero.Faero,
              !.Maero = aero.Maero,
              !.Flift = aero.Flift,
              !.Fdrug = aero.Fdrug,
              !.Fside = aero.Fside,
              !.Msteer = aero.Msteer,
              !.Mairspeed = aero.Mairspeed]

\* what process() hands back once calculateNewState() has integrated
ProcessResult(motorCmd_, actuators, lag, before) ==
    [state |-> AfterIntegration(before),
     integrated |-> before[1],
     motorCmd |-> motorCmd_,
     target |-> actuators,
     out |-> lag.cmd,
     hit |-> before[1].position[3] >= 0,
     oob |-> Len(actuators) < 8]

\* calculateNewState(state_.Maero, state_.Faero, actuators, dtSecs) on the
\* filtered actuators
ProcessIntegrated(motorCmd_, actuators, lag, aero, dtSecs) ==
    ProcessResult(motorCmd_, actuators, lag,
                  Integrated(WithAerodynamics(lag.state, aero),
                             aero.Maero, aero.Faero, lag.elements, dtSecs))

\* process(dtSecs, motorCmd, isCmdPercent) when it runs to its end: the
\* state, the caller's vector afterwards (it is passed by const reference
\* and never written), the copy handed to the lag and whether an element
\* outside that copy was accessed: updateActuators() accesses elements
\* 0..7, process() reads 5..7 and calculateNewState() 0..4.  noise is what
\* distribution_ yields, beyond what an element outside the copy holds.
process(s, dtSecs, motorCmd_, isCmdPercent, noise, beyond) ==
    LET vel_w == calculateWind(s, noise)
        rotationMatrix == calculateRotationMatrix(s.attitude)
        airSpeed == calculateAirSpeed(rotationMatrix, s.linearVel, vel_w)
        actuators == LagTarget(motorCmd_, isCmdPercent)
        lag == updateActuators(s, actuators, dtSecs, beyond)
    IN  ProcessIntegrated(motorCmd_, actuators, lag,
                          AerodynamicsAt(airSpeed, lag.elements), dtSecs)

---------------------------------------------------------------------------
(* CalibrationStateMachine                                                 *)

\* MAG_ROTATION_SPEED = 2 * 3.1415 / 10 rad/s
MAG_ROTATION_SPEED == 628

\* DELTA_TIME = 0.001 s
DELTA_TIME == 10

CalibrationTypes ==
    {"WORK_MODE", "MAG_1_NORMAL", "MAG_2_OVERTURNED", "MAG_3_HEAD_DOWN",
     "MAG_4_HEAD_UP", "MAG_5_TURNED_LEFT", "MAG_6_TURNED_RIGHT",
     "MAG_7_ARDUPILOT", "MAG_8_ARDUPILOT", "MAG_9_ARDUPILOT",
     "ACC_1_NORMAL", "ACC_2_OVERTURNED", "ACC_3_HEAD_DOWN", "ACC_4_HEAD_UP",
     "ACC_5_TURNED_LEFT", "ACC_6_TURNED_RIGHT", "AIRSPEED"}

\* the quaternion (w, x, y, z) a mode assigns to the attitude
ModeAttitude(calType) ==
    CASE calType \in {"WORK_MODE", "MAG_1_NORMAL", "ACC_1_NORMAL", "AIRSPEED"}
           -> << 10000, 0, 0, 0 >>
      [] calType \in {"MAG_2_OVERTURNED", "ACC_2_OVERTURNED"}
           -> << 0, 10000, 0, 0 >>
      [] calType \in {"MAG_3_HEAD_DOWN", "ACC_3_HEAD_DOWN"}
           -> << 7070, 0, -7070, 0 >>
      [] calType \in {"MAG_4_HEAD_UP", "ACC_4_HEAD_UP"}
           -> << 7070, 0, 7070, 0 >>
      [] calType \in {"MAG_5_TURNED_LEFT", "ACC_5_TURNED_LEFT"}
           -> << 7070, -7070, 0, 0 >>
      [] calType \in {"MAG_6_TURNED_RIGHT", "ACC_6_TURNED_RIGHT"}
           -> << 7070, 7070, 0, 0 >>

\* the modes that assign the attitude at all, and those that do so on
\* every call rather than on entry only
AssignsAttitude(calType) ==
    calType \notin {"MAG_7_ARDUPILOT", "MAG_8_ARDUPILOT", "MAG_9_ARDUPILOT"}

\* mutant of AssignsAttitudeAlways: every mode assigns on every call
AssignsAttitudeOnEveryCall(calType) == TRUE

AssignsAttitudeAlways(calType) == calType \in {"WORK_MODE", "AIRSPEED"}

\* mutant of ModeAngularVel: the ArduPilot modes left without rotation
ModeAngularVelWithoutArdupilot(calType) ==
    LET w == MAG_ROTATION_SPEED
    IN  CASE calType = "MAG_1_NORMAL"       -> << 0, 0, -w >>
          [] calType = "MAG_2_OVERTURNED"   -> << 0, 0, w >>
          [] calType = "MAG_3_HEAD_DOWN"    -> << -w, 0, 0 >>
          [] calType = "MAG_4_HEAD_UP"      -> << w, 0, 0 >>
          [] calType = "MAG_5_TURNED_LEFT"  -> << 0, w, 0 >>
          [] calType = "MAG_6_TURNED_RIGHT" -> << 0, -w, 0 >>
          [] OTHER                          -> Zero3

\* the angular velocity a mode assigns
ModeAngularVel(calType) ==
    LET w == MAG_ROTATION_SPEED
    IN  CASE calType = "MAG_1_NORMAL"       -> << 0, 0, -w >>
          [] calType = "MAG_2_OVERTURNED"   -> << 0, 0, w >>
          [] calType = "MAG_3_HEAD_DOWN"    -> << -w, 0, 0 >>
          [] calType = "MAG_4_HEAD_UP"      -> << w, 0, 0 >>
          [] calType = "MAG_5_TURNED_LEFT"  -> << 0, w, 0 >>
          [] calType = "MAG_6_TURNED_RIGHT" -> << 0, -w, 0 >>
          [] calType = "MAG_7_ARDUPILOT"    -> << w, w, w >>
          [] calType = "MAG_8_ARDUPILOT"    -> << -w, w, w >>
          [] calType = "MAG_9_ARDUPILOT"    -> << w, -w, w >>
          [] OTHER                          -> Zero3

calculateNormalForceWithoutMass(attitude) ==
    MatVec(calculateRotationMatrix(attitude), << 0, 0, -gravity >>)

\* calibrate(calType) with the static prevCalibrationType holding prev
calibrate(s, prev, calType) ==
    LET attitude == IF AssignsAttitude(calType)
                       /\ (AssignsAttitudeAlways(calType) \/ prev # calType)
                    THEN ModeAttitude(calType)
                    ELSE s.attitude
        angularVel == ModeAngularVel(calType)
        linearVel == IF calType = "AIRSPEED" THEN << 10000, 10000, 0 >>
                     ELSE Zero3
    IN  [s EXCEPT !.linearVel = linearVel,
                  !.position = << s.position[1], s.position[2], 0 >>,
                  !.angularVel = angularVel,
                  !.Fspecific = calculateNormalForceWithoutMass(attitude),
                  !.attitude = IntegrateAttitude(attitude, angularVel, DELTA_TIME)]


---------------------------------------------------------------------------
(* Uav_Dynamics: the node that owns the simulator, its members and the     *)
(* threads it starts.  None of the simulator's own operations touches      *)
(* them.  The members that only feed the log line of performLogging()      *)
(* (dynamicsCounter_, rosPubCounter_, actuatorsMsgCounter_, maxDelayUsec_  *)
(* and the two timestamps) are left out: nothing reads them back into the  *)
(* simulator.                                                              *)

nodeVars == << node, now, loop, readers >>

\* the members after Uav_Dynamics::Uav_Dynamics(): actuators_(8, 0.), the
\* vehicle disarmed, the calibration selector in work mode, no scenario
NodeConstructed ==
    [armed_           |-> FALSE,
     calibrationType_ |-> "WORK_MODE",
     actuators_       |-> Zero8,
     scenarioType     |-> 0,
     currentTime_     |-> 0,
     ok               |-> TRUE,            \* what ros::ok() returns
     missing          |-> {},              \* keys the parameter server lacks
     params           |-> "unset",         \* what loadParams() has left in params_
     spin             |-> [pc |-> "idle", axes |-> << >>],
                                           \* the callback ros::spin() is inside
     delivered        |-> {Zero8},         \* what actuators_ held whenever no
                                           \* actuatorsCallback was running
     overrun          |-> FALSE,           \* an element past actuators_[7]
                                           \* has been written
     phase            |-> "constructed"]   \* how far main() has come

\* proceedDynamics() before its first iteration: the static crnt_time of
\* the armed branch is not initialised yet
LoopNotStarted ==
    [pc        |-> "head",
     result    |-> << >>,        \* what the call in progress will leave
     completed |-> {},           \* position and attitude after each update
     crnt_time |-> -1,
     armed     |-> FALSE,        \* armed_ as this iteration read it
     selector  |-> "WORK_MODE",  \* calibrationType_ as this iteration read it
     entered   |-> "WORK_MODE",  \* the selector the iteration before had read
     measured  |-> 0,            \* time_dif_sec before the clamp
     path      |-> "none",       \* the operation this iteration invoked
     last      |-> "none",       \* the operation the iteration before invoked
     before    |-> UnsetQ,       \* the attitude when this iteration began
     scenario  |-> 0,            \* _scenarioType when this iteration ran
     published |-> 0]

\* publishToRos() and performLogging() before their first iteration
ReadersNotStarted ==
    [publish     |-> [pc |-> "head", iterations |-> 0,
                      position |-> Unset3, attitude |-> UnsetQ],
     diagnostics |-> [pc |-> "head", iterations |-> 0, pose |-> Unset3]]

\* the node as the specifications of the simulator's interface leave it
NodeIdle ==
    /\ node = NodeConstructed
    /\ now = 0
    /\ loop = LoopNotStarted
    /\ readers = ReadersNotStarted

---------------------------------------------------------------------------
(* The integrator interface: setInitialPosition, setInitialVelocity,       *)
(* calculateNewState, land and calibrate called by a client (the node's    *)
(* dynamics loop, the unit tests).                                         *)

\* the longest run of ticks explored
MaxTicks == 3

\* dt of one tick: 0.0025 s
TickDt == 25

\* dt of a tick after a stall: 0.025 s
LongDt == 250

\* the record describing an operation; fields an operation has no use for
\* keep these values
NoCall ==
    [op      |-> "none",
     cmd     |-> << >>,     \* the command / actuator vector passed in
     percent |-> FALSE,     \* isCmdPercent
     dt      |-> 0,
     Maero   |-> Zero3,
     Faero   |-> Zero3,
     target  |-> << >>,     \* the vector handed to the actuator lag
     out     |-> << >>,     \* the vector the operation produced
     hit     |-> FALSE,     \* the integrated position reached z >= 0
     oob     |-> FALSE,     \* an element outside a vector was accessed
     completed |-> TRUE]    \* the operation returned

\* what the member params_.gravity may hold before loadParams()
UninitGravity == {0, gravity}

Attitudes ==
    [identity |-> << 10000, 0, 0, 0 >>,
     tilted   |-> << 9833, 1436, 1060, 343 >>,
     \* Quaterniond(1, 0.2, 0.10, 0.05), as the unit test passes it
     raw      |-> << 10000, 2000, 1000, 500 >>]

InitialPoses ==
    { << << 0, 0, 0 >>, Attitudes.identity >>,
      << << 0, 0, 0 >>, Attitudes.raw >>,
      << << 1000, 2000, -10000 >>, Attitudes.tilted >>,
      << << 0, 0, -8 >>, Attitudes.identity >> }

InitialVelocities ==
    { << << 1000, 0, 2000 >>, << 0, 0, 500 >> >> }

Motors(a) == << a, a, a, a, 0, 0, 0, 0 >>

\* arguments of calculateNewState
StepInputs ==
    { [Maero |-> Zero3, Faero |-> Zero3, actuator |-> Zero8, dt |-> TickDt],
      [Maero |-> << 100, 0, 50 >>, Faero |-> Zero3, actuator |-> Zero8,
       dt |-> TickDt],
      [Maero |-> Zero3, Faero |-> << 0, 0, -40000 >>, actuator |-> Zero8,
       dt |-> LongDt],
      [Maero |-> Zero3, Faero |-> << 500, 0, 0 >>,
       actuator |-> Motors(50000), dt |-> TickDt],
      [Maero |-> << 0, 20, 0 >>, Faero |-> Zero3,
       actuator |-> << 100000, 100000, 100000, 100000, 50000, 0, 0, 0 >>,
       dt |-> TickDt] }

CalibrationInputs ==
    {"WORK_MODE", "MAG_3_HEAD_DOWN", "MAG_7_ARDUPILOT", "AIRSPEED"}

ZeroThrust(actuator) == \A idx \in 1..5 : actuator[idx] = 0

NoStreak == [zeroThrust |-> -1, zeroThrustNoAero |-> -1]

\* a run goes on with a step whose input is of its kind, starts anew with a
\* step that triggers the reset, and ends otherwise
StreakAfter(n, ofKind, hit) ==
    IF n >= 0 /\ ofKind THEN n + 1 ELSE IF hit THEN 0 ELSE -1

Init ==
    /\ state_ \in {Constructed(g) : g \in UninitGravity}
    /\ prevCalibrationType = "WORK_MODE"
    /\ motorCmd = Zero8
    /\ call = NoCall
    /\ ticks = 0
    /\ posed = FALSE
    /\ resetStreak = NoStreak
    /\ NodeIdle

SetInitialPosition(pose) ==
    /\ ticks = 0
    /\ ~posed
    /\ state_' = setInitialPosition(state_, pose[1], pose[2])
    /\ posed' = TRUE
    /\ call' = [NoCall EXCEPT !.op = "setInitialPosition"]
    /\ UNCHANGED nodeVars
    /\ UNCHANGED << prevCalibrationType, motorCmd, ticks, resetStreak >>

SetInitialVelocity(vel) ==
    /\ ticks = 0
    /\ call.op # "setInitialVelocity"
    /\ state_' = setInitialVelocity(state_, vel[1], vel[2])
    /\ call' = [NoCall EXCEPT !.op = "setInitialVelocity"]
    /\ UNCHANGED nodeVars
    /\ UNCHANGED << prevCalibrationType, motorCmd, ticks, posed, resetStreak >>

\* what a calculateNewState() call leaves behind, r being its state as
\* integrated, before the ground test
CalculateNewStateReturns(in, r, hit) ==
    /\ state_' = AfterIntegration(r)
    /\ call' = [NoCall EXCEPT !.op = "calculateNewState",
                              !.cmd = in.actuator,
                              !.dt = in.dt,
                              !.Maero = in.Maero,
                              !.Faero = in.Faero,
                              !.hit = hit]
    /\ resetStreak' =
          [zeroThrust |->
              StreakAfter(resetStreak.zeroThrust, ZeroThrust(in.actuator), hit),
           zeroThrustNoAero |->
              StreakAfter(resetStreak.zeroThrustNoAero,
                          ZeroThrust(in.actuator) /\ in.Faero = Zero3, hit)]

CalculateNewState(in) ==
    /\ posed
    /\ ticks < MaxTicks
    /\ CalculateNewStateReturns(
          in, Integrated(state_, in.Maero, in.Faero, in.actuator, in.dt),
          Integrated(state_, in.Maero, in.Faero, in.actuator,
                     in.dt)[1].position[3] >= 0)
    /\ ticks' = ticks + 1
    /\ UNCHANGED nodeVars
    /\ UNCHANGED << prevCalibrationType, motorCmd, posed >>

Land ==
    /\ posed
    /\ ticks < MaxTicks
    /\ state_' = land(state_)
    /\ call' = [NoCall EXCEPT !.op = "land"]
    /\ resetStreak' = NoStreak
    /\ ticks' = ticks + 1
    /\ UNCHANGED nodeVars
    /\ UNCHANGED << prevCalibrationType, motorCmd, posed >>

Calibrate(calType) ==
    /\ posed
    /\ ticks < MaxTicks
    /\ state_' = calibrate(state_, prevCalibrationType, calType)
    /\ prevCalibrationType' = calType
    /\ call' = [NoCall EXCEPT !.op = "calibrate"]
    /\ resetStreak' = NoStreak
    /\ ticks' = ticks + 1
    /\ UNCHANGED nodeVars
    /\ UNCHANGED << motorCmd, posed >>

Next ==
    \/ \E pose \in InitialPoses : SetInitialPosition(pose)
    \/ \E vel \in InitialVelocities : SetInitialVelocity(vel)
    \/ \E in \in StepInputs : CalculateNewState(in)
    \/ Land
    \/ \E calType \in CalibrationInputs : Calibrate(calType)

Spec == Init /\ [][Next]_vars


---------------------------------------------------------------------------
(* Properties of the integrator interface                                  *)

\* the state after a ground reset: at rest, in the reference attitude
AtRestInInitialAttitude ==
    /\ state_.linearVel = Zero3
    /\ state_.angularVel = Zero3
    /\ state_.attitude = state_.initialAttitude

\* |q|^2 = 1 up to the rounding of the fixed-point components
IsUnitNorm(q) == Abs(NormSq(q) - QScale * QScale) <= 4 * QScale

\* C1: whenever calculateNewState leaves the integrated position at z >= 0,
\* on return the linear and the angular velocity are zero, the attitude is
\* the stored initial attitude and the five motor rpm are zero.
C1_GroundContactResets ==
    (call.op = "calculateNewState" /\ call.hit)
        => (AtRestInInitialAttitude /\ state_.motorsRpm = << 0, 0, 0, 0, 0 >>)

\* a step with the motors running that reached the ground
C1_Witness ==
    /\ call.op = "calculateNewState"
    /\ call.hit
    /\ ~ZeroThrust(call.cmd)
    /\ state_.Fmotors[1][3] < 0

\* C2, as stated: after a step that triggered the ground reset, every later
\* step of a run of zero-thrust steps ends at rest in the initial attitude.
C2_ZeroThrustKeepsReset ==
    (call.op = "calculateNewState" /\ resetStreak.zeroThrust >= 1)
        => AtRestInInitialAttitude

\* C2, amended: after a step that triggered the ground reset, every later
\* step of a run of steps with zero-thrust actuators and no aerodynamic
\* force ends at rest in the initial attitude.
C2_ZeroThrustNoAeroKeepsReset ==
    (call.op = "calculateNewState" /\ resetStreak.zeroThrustNoAero >= 1)
        => AtRestInInitialAttitude

\* a second zero-thrust step after the reset, pushed by a moment
C2_Witness ==
    /\ call.op = "calculateNewState"
    /\ resetStreak.zeroThrustNoAero >= 2
    /\ call.Maero # Zero3
    /\ state_.angularAccel # Zero3

\* C3, as stated: the attitude has unit norm on return from every
\* calculateNewState (the ground reset included, whatever attitude
\* setInitialPosition was given) and from every calibrate.
C3_AttitudeUnitNorm ==
    call.op \in {"calculateNewState", "calibrate"}
        => IsUnitNorm(state_.attitude)


---------------------------------------------------------------------------
(* The mixers as pure functions of the command vector                      *)

\* the longest command vector of a wrong size
MaxCmdLen == 9

\* 8-element raw commands: every channel takes values inside and outside
\* the range its class is clamped to
MixerCommands ==
    { << a, b, 400, 1000, c, d, e, f >> :
        a \in {0, 700}, b \in {-200, 1200},
        c \in {-100, 0, 250, 500, 1000, 1300},
        d \in {-1500, -400, 0, 600},
        e \in {-1000, 0, 300, 2000},
        f \in {-1200, -300, 0, 500, 1400} }

\* command vectors of every other size up to MaxCmdLen
WrongSizeCommands ==
    UNION { [1..n -> {-500, 2000}] : n \in (0..MaxCmdLen) \ {8} }

MixerOps == {"mapCmdToActuatorStandardVTOL", "mapCmdToActuatorInnoVTOL"}

InitMixer ==
    /\ state_ = Constructed(gravity)
    /\ prevCalibrationType = "WORK_MODE"
    /\ motorCmd \in MixerCommands \cup WrongSizeCommands
    /\ call = NoCall
    /\ ticks = 0
    /\ posed = FALSE
    /\ resetStreak = NoStreak
    /\ NodeIdle

MapCmdToActuatorStandardVTOL ==
    /\ call' = [NoCall EXCEPT !.op = "mapCmdToActuatorStandardVTOL",
                              !.cmd = motorCmd,
                              !.percent = TRUE,
                              !.out = mapCmdToActuatorStandardVTOL(motorCmd)]
    /\ UNCHANGED nodeVars
    /\ UNCHANGED << state_, prevCalibrationType, motorCmd, ticks, posed,
                    resetStreak >>

MapCmdToActuatorInnoVTOL ==
    /\ call' = [NoCall EXCEPT !.op = "mapCmdToActuatorInnoVTOL",
                              !.cmd = motorCmd,
                              !.percent = TRUE,
                              !.out = mapCmdToActuatorInnoVTOL(motorCmd)]
    /\ UNCHANGED nodeVars
    /\ UNCHANGED << state_, prevCalibrationType, motorCmd, ticks, posed,
                    resetStreak >>

NextMixer == MapCmdToActuatorStandardVTOL \/ MapCmdToActuatorInnoVTOL

SpecMixer == InitMixer /\ [][NextMixer]_vars

---------------------------------------------------------------------------
(* Properties of the mixers                                                *)

MixerReturned(size8) ==
    /\ call.op \in MixerOps
    /\ (Len(call.cmd) = 8) = size8

\* a unit deflection u clamped to [-1, 1] and scaled for surface channel idx
ExpectedSurface(u, idx) ==
    IF u >= Scale THEN actuatorMax[idx]
    ELSE IF u <= -Scale THEN actuatorMin[idx]
    ELSE IF u >= 0 THEN RDiv(u * actuatorMax[idx], Scale)
    ELSE RDiv(u * Abs(actuatorMin[idx]), Scale)

\* a unit throttle u clamped to [0, 1] and scaled for channel idx
ExpectedThrottle(u, idx) ==
    IF u >= Scale THEN actuatorMax[idx]
    ELSE IF u <= 0 THEN 0
    ELSE RDiv(u * actuatorMax[idx], Scale)

\* C4: both mixers return a command vector whose length is not 8 unchanged.
C4_WrongSizeReturnedUnchanged ==
    MixerReturned(FALSE) => call.out = call.cmd

\* a 7-element vector with elements a clamp would change, given to InnoVTOL
C4_Witness ==
    /\ call.op = "mapCmdToActuatorInnoVTOL"
    /\ Len(call.cmd) = 7
    /\ \E i \in 1..7 : call.cmd[i] > Scale
    /\ \E i \in 1..7 : call.cmd[i] < 0

\* C6: for an 8-element command both mixers return channels 0-4 inside
\* [0, actuatorMax] and channels 5-7 inside [actuatorMin, actuatorMax]; a
\* surface output of non-negative sign is a fraction of actuatorMax, one of
\* negative sign the same fraction of |actuatorMin|.
C6_OutputsInsideRange ==
    MixerReturned(TRUE) =>
        /\ Len(call.out) = 8
        /\ \A idx \in 1..5 :
              call.out[idx] >= 0 /\ call.out[idx] <= actuatorMax[idx]
        /\ \A idx \in 6..8 :
              /\ call.out[idx] >= actuatorMin[idx]
              /\ call.out[idx] <= actuatorMax[idx]
              /\ LET u == IF call.op = "mapCmdToActuatorInnoVTOL"
                          THEN << 2 * call.cmd[5] - Scale, call.cmd[6],
                                  call.cmd[7] >>[idx - 5]
                          ELSE << RDiv(call.cmd[6] - call.cmd[7], 2),
                                  -call.cmd[8], 0 >>[idx - 5]
                 IN  call.out[idx] = ExpectedSurface(u, idx)

\* StandardVTOL given throttles above 1 and surfaces beyond -1: the aileron
\* stops at actuatorMin
C6_Witness ==
    /\ call.op = "mapCmdToActuatorStandardVTOL"
    /\ Len(call.cmd) = 8
    /\ call.cmd[2] > Scale
    /\ call.cmd[6] - call.cmd[7] < -2 * Scale
    /\ call.out[6] = actuatorMin[6]
    /\ call.out[7] > 0

\* C7: InnoVTOL maps outputs 0-3 from raw 0-3, output 4 from raw 7, output
\* 5 (aileron) from raw 4 re-centred as 2*(raw - 0.5) before the clamp (raw
\* 0.5 gives 0, raw 0 full negative, raw 1 full positive), output 6 from raw
\* 5 and output 7 from raw 6.
C7_InnoVTOLLayout ==
    (call.op = "mapCmdToActuatorInnoVTOL" /\ Len(call.cmd) = 8) =>
        /\ \A idx \in 1..4 :
              call.out[idx] = ExpectedThrottle(call.cmd[idx], idx)
        /\ call.out[5] = ExpectedThrottle(call.cmd[8], 5)
        /\ call.out[6] = ExpectedSurface(2 * call.cmd[5] - Scale, 6)
        /\ call.out[7] = ExpectedSurface(call.cmd[6], 7)
        /\ call.out[8] = ExpectedSurface(call.cmd[7], 8)
        /\ (2 * call.cmd[5] = Scale => call.out[6] = 0)
        /\ (call.cmd[5] = 0 => call.out[6] = actuatorMin[6])
        /\ (call.cmd[5] = Scale => call.out[6] = actuatorMax[6])

\* InnoVTOL given an aileron below 0, which the clamp applied first would
\* have left unclamped after the re-centring
C7_Witness ==
    /\ call.op = "mapCmdToActuatorInnoVTOL"
    /\ Len(call.cmd) = 8
    /\ call.cmd[5] < 0
    /\ call.out[6] = actuatorMin[6]
    /\ call.cmd[8] > 0 /\ call.cmd[8] < Scale
    /\ call.out[5] > 0

\* C8: StandardVTOL yields aileron = clamp((raw5 - raw6)/2) scaled,
\* elevator = clamp(-raw7) scaled, rudder = 0 whatever the input, and
\* outputs 0-4 from raw 0-4.
C8_StandardVTOLLayout ==
    (call.op = "mapCmdToActuatorStandardVTOL" /\ Len(call.cmd) = 8) =>
        /\ \A idx \in 1..5 :
              call.out[idx] = ExpectedThrottle(call.cmd[idx], idx)
        /\ call.out[6] = ExpectedSurface(RDiv(call.cmd[6] - call.cmd[7], 2), 6)
        /\ call.out[7] = ExpectedSurface(-call.cmd[8], 7)
        /\ call.out[8] = 0

\* StandardVTOL given differing raw 5 and 6 and a nonzero raw 7
C8_Witness ==
    /\ call.op = "mapCmdToActuatorStandardVTOL"
    /\ Len(call.cmd) = 8
    /\ call.cmd[8] > 0
    /\ call.out[7] < 0
    /\ call.out[6] > 0 /\ call.out[6] < actuatorMax[6]
    /\ call.out[8] = 0


---------------------------------------------------------------------------
(* The actuator lag called on its own                                      *)

\* the longest run of updateActuators calls
MaxLagCalls == 2

\* a dt long against every time constant: 10 s
VeryLongDt == 100000

LagTargets ==
    { Zero8,
      << 100000, 50000, 0, 25000, 60000, 20000, -10000, 5000 >>,
      << 30000, 30000, 30000, 30000, 0, -5000, 10000, -10000 >>,
      << 1000, 2000, 3000, 4000, 5000, 6000, 7000, 8000 >> }

LagDts == {0, TickDt, LongDt, 2500, VeryLongDt}

InitActuators ==
    /\ state_ = Constructed(gravity)
    /\ prevCalibrationType = "WORK_MODE"
    /\ motorCmd = Zero8
    /\ call = NoCall
    /\ ticks = 0
    /\ posed = FALSE
    /\ resetStreak = NoStreak
    /\ NodeIdle

\* what an updateActuators() call that yielded r leaves behind; the
\* vector is filtered in place
UpdateActuatorsReturns(cmd, dtSecs, r) ==
    /\ state_' = r.state
    /\ motorCmd' = r.cmd
    /\ call' = [NoCall EXCEPT !.op = "updateActuators",
                              !.cmd = cmd,
                              !.dt = dtSecs,
                              !.target = cmd,
                              !.out = r.cmd]

\* the caller sets its vector to a target and has it filtered
UpdateActuators(cmd, dtSecs) ==
    /\ ticks < MaxLagCalls
    /\ UpdateActuatorsReturns(cmd, dtSecs,
                              updateActuators(state_, cmd, dtSecs, 0))
    /\ ticks' = ticks + 1
    /\ UNCHANGED nodeVars
    /\ UNCHANGED << prevCalibrationType, posed, resetStreak >>

NextActuators ==
    \E cmd \in LagTargets, dtSecs \in LagDts : UpdateActuators(cmd, dtSecs)

SpecActuators == InitActuators /\ [][NextActuators]_vars

\* out lies the fraction 1 - pow(2.71, -dt/tau) of the way from `from` to
\* `to`, up to rounding: out - from = (to - from) * (1 - pow)
MovedBy(from, to, out, dtSecs, tau) ==
    Abs((out - from) * Scale - (to - from) * (Scale - Pow271Neg(dtSecs, tau)))
        <= Scale

\* C9, as stated: each channel moves from the previous filtered value
\* toward the target by the fraction 1 - e^(-dt/tau) of the gap; with dt = 0
\* the output is the previous filtered value, with dt large against tau it
\* is the target.
C9_MovesFromPreviousTowardTarget ==
    call.op = "updateActuators" =>
        \A idx \in 1..8 :
            /\ MovedBy(state_.prevActuators[idx], call.target[idx],
                       call.out[idx], call.dt, actuatorTimeConstants[idx])
            /\ (call.dt = 0 => call.out[idx] = state_.prevActuators[idx])
            /\ (call.dt = VeryLongDt => call.out[idx] = call.target[idx])

\* C9, amended: each channel moves from the target toward the previous
\* filtered value by the fraction 1 - 2.71^(-dt/tau) of the gap; with dt = 0
\* the output is the target, with dt large against tau it is the previous
\* filtered value.
C9_MovesFromTargetTowardPrevious ==
    call.op = "updateActuators" =>
        \A idx \in 1..8 :
            /\ MovedBy(call.target[idx], state_.prevActuators[idx],
                       call.out[idx], call.dt, actuatorTimeConstants[idx])
            /\ (call.dt = 0 => call.out[idx] = call.target[idx])
            /\ (call.dt = VeryLongDt
                  => call.out[idx] = state_.prevActuators[idx])
            /\ state_.crntActuators[idx] = call.out[idx]

\* a call with dt = 0 whose target differs on every channel from a nonzero
\* previous filtered value
C9_Witness ==
    /\ call.op = "updateActuators"
    /\ call.dt = 0
    /\ \A idx \in 1..8 :
          /\ state_.prevActuators[idx] # 0
          /\ state_.prevActuators[idx] # call.target[idx]


---------------------------------------------------------------------------
(* The tick called by a client: setInitialPosition, setWindParameter and   *)
(* then process() with the command vector the client holds.                *)

\* the longest run of process() calls
MaxProcessTicks == 2

ProcessPoses ==
    { << << 0, 0, 0 >>, Attitudes.identity >>,
      << << 1000, 2000, -10000 >>, Attitudes.tilted >> }

WindParameters == { << << 0, 5000, 0 >>, 0 >>, << << 2000, 0, 0 >>, 250 >> }

\* samples of distribution_
WindNoise == { << 1000, -1000, 0 >> }

\* commands with their isCmdPercent flag: percent commands of 8 elements,
\* physical commands of 8 elements, percent commands of another size
ProcessCommands ==
    { [cmd |-> << 700, 700, 700, 700, 500, 0, 0, 0 >>, percent |-> TRUE],
      [cmd |-> << 0, 0, 0, 0, 800, -500, 300, 900 >>, percent |-> TRUE],
      [cmd |-> << 60000, 60000, 60000, 60000, 0, 5000, -3000, 2000 >>,
       percent |-> FALSE],
      [cmd |-> Zero8, percent |-> FALSE],
      [cmd |-> << 500, 500, 500 >>, percent |-> TRUE],
      [cmd |-> << 700, 700, 700, 700, 500, 0, 0, 0, 1000 >>, percent |-> TRUE] }

ProcessDts == {0, TickDt}

\* what an element outside the vector may hold
Beyond == {0, 50000}

InitProcess ==
    /\ state_ = Constructed(gravity)
    /\ prevCalibrationType = "WORK_MODE"
    /\ motorCmd = Zero8
    /\ call = NoCall
    /\ ticks = 0
    /\ posed = FALSE
    /\ resetStreak = NoStreak
    /\ NodeIdle

SetWindParameter(wind) ==
    /\ ticks = 0
    /\ call.op # "setWindParameter"
    /\ state_' = setWindParameter(state_, wind[1], wind[2])
    /\ call' = [NoCall EXCEPT !.op = "setWindParameter"]
    /\ UNCHANGED nodeVars
    /\ UNCHANGED << prevCalibrationType, motorCmd, ticks, posed, resetStreak >>

\* what a process() call that returned r leaves behind
ProcessReturns(in, dtSecs, r) ==
    /\ state_' = r.state
    /\ motorCmd' = r.motorCmd
    /\ call' = [NoCall EXCEPT !.op = "process",
                              !.cmd = in.cmd,
                              !.percent = in.percent,
                              !.dt = dtSecs,
                              !.Maero = r.state.Maero,
                              !.Faero = r.state.Faero,
                              !.target = r.target,
                              !.out = r.out,
                              !.hit = r.hit,
                              !.oob = r.oob]

\* process() running to its end; with a vector shorter than 8 it does so
\* on whatever the elements outside the vector hold
Process(in, dtSecs, noise, beyond) ==
    /\ posed
    /\ call.completed
    /\ ticks < MaxProcessTicks
    /\ (Len(in.cmd) >= 8 => beyond = 0)
    /\ ProcessReturns(in, dtSecs,
                      process(state_, dtSecs, in.cmd, in.percent, noise, beyond))
    /\ ticks' = ticks + 1
    /\ UNCHANGED nodeVars
    /\ UNCHANGED << prevCalibrationType, posed, resetStreak >>

\* process() stopped by an access outside the vector: the tick never
\* returns and the program is gone
ProcessFaults(in, dtSecs) ==
    /\ posed
    /\ call.completed
    /\ ticks < MaxProcessTicks
    /\ Len(LagTarget(in.cmd, in.percent)) < 8
    /\ call' = [NoCall EXCEPT !.op = "process",
                              !.cmd = in.cmd,
                              !.percent = in.percent,
                              !.dt = dtSecs,
                              !.target = LagTarget(in.cmd, in.percent),
                              !.oob = TRUE,
                              !.completed = FALSE]
    /\ motorCmd' = in.cmd
    /\ ticks' = ticks + 1
    /\ UNCHANGED nodeVars
    /\ UNCHANGED << state_, prevCalibrationType, posed, resetStreak >>

NextProcess ==
    \/ \E pose \in ProcessPoses : SetInitialPosition(pose)
    \/ \E wind \in WindParameters : SetWindParameter(wind)
    \/ \E in \in ProcessCommands, dtSecs \in ProcessDts, noise \in WindNoise,
          beyond \in Beyond : Process(in, dtSecs, noise, beyond)
    \/ \E in \in ProcessCommands, dtSecs \in ProcessDts : ProcessFaults(in, dtSecs)

SpecProcess == InitProcess /\ [][NextProcess]_vars

\* C5, as stated: a process() tick given a percent command whose length is
\* not 8 runs to its end, and no step of it accesses an element outside the
\* vector that was passed through.
C5_WrongSizeTickStaysInsideVector ==
    (call.op = "process" /\ call.percent /\ Len(call.cmd) # 8)
        => (call.completed /\ ~call.oob)

\* C10: in process() a percent command goes through the mixer and the
\* result is the target of the lag; a physical command is the target of
\* the lag element for element; the caller's vector is left as it was.
C10_PercentMixedPhysicalBypasses ==
    (call.op = "process" /\ call.completed /\ Len(call.cmd) = 8) =>
        /\ call.percent =>
              /\ call.target = mapCmdToActuatorInnoVTOL(call.cmd)
              /\ call.target[5] = ExpectedThrottle(call.cmd[8], 5)
              /\ call.target[6] = ExpectedSurface(2 * call.cmd[5] - Scale, 6)
        /\ ~call.percent => call.target = call.cmd
        /\ motorCmd = call.cmd
        /\ \A idx \in 1..8 :
              /\ MovedBy(call.target[idx], state_.prevActuators[idx],
                         state_.crntActuators[idx], call.dt,
                         actuatorTimeConstants[idx])
              /\ call.out[idx] = state_.crntActuators[idx]

\* a physical command the mixer would have clamped, after an earlier tick
\* left the lag a nonzero state
C10_Witness ==
    /\ call.op = "process"
    /\ call.completed
    /\ ~call.percent
    /\ Len(call.cmd) = 8
    /\ call.cmd[1] > Scale
    /\ call.dt > 0
    /\ state_.prevActuators[1] > 0
    /\ state_.crntActuators[1] # call.target[1]


---------------------------------------------------------------------------
(* The dynamics loop of the node, one iteration at a time, with the        *)
(* callbacks that ros::spin() delivers between iterations.                 *)

\* the longest run of iterations explored
MaxIterations == 3

\* const double MAX_TIME_DIFF_SEC = 10 * periodSec, periodSec being the
\* period the thread was started with
MAX_TIME_DIFF_SEC == 10 * TickDt

\* mutant of ClampTimeDiff: the measured time handed on as it is
TimeDiffNotClamped(time_dif_sec) == time_dif_sec

\* if (time_dif_sec > MAX_TIME_DIFF_SEC) time_dif_sec = MAX_TIME_DIFF_SEC;
ClampTimeDiff(time_dif_sec) ==
    IF time_dif_sec > MAX_TIME_DIFF_SEC THEN MAX_TIME_DIFF_SEC
    ELSE time_dif_sec

\* mutant of PathOf: the arm state tested before the selector
PathOfArmedFirst(calibrationType, armed) ==
    IF ~armed THEN "land"
    ELSE IF calibrationType # "WORK_MODE" THEN "calibrate"
    ELSE "process"

\* the branch an iteration takes, from the selector and the arm state
PathOf(calibrationType, armed) ==
    IF calibrationType # "WORK_MODE" THEN "calibrate"
    ELSE IF armed THEN "process"
    ELSE "land"

\* actuatorsCallback(msg): axis idx of the message goes to actuators_[idx],
\* then scenario 1 zeroes actuators_[7]
actuatorsCallback(actuators, axes, scenarioType) ==
    [idx \in 1..8 |->
        IF idx = 8 /\ scenarioType = 1 THEN 0
        ELSE IF idx <= Len(axes) THEN axes[idx]
        ELSE actuators[idx]]

\* how much later than its deadline sleep_until() may return
Stalls == {0, 12 * TickDt}

\* the poses init_pose may hold: initDynamicsSimulator() normalizes the
\* attitude before it calls setInitialPosition()
NodePoses ==
    { << << 0, 0, 0 >>, Attitudes.identity >>,
      << << 1000, 2000, -10000 >>, Attitudes.tilted >> }

\* axes of the messages on /uav/actuators
ActuatorMessages == { << 700, 700, 700, 700, 500, 500, 500, 600 >> }

\* what /uav/calibration may select while the loop runs
LoopSelectors == {"WORK_MODE", "MAG_3_HEAD_DOWN"}

\* init() has returned 0: the simulator is loaded and posed, the threads run
InitLoop ==
    /\ state_ \in {setInitialPosition(Constructed(gravity), pose[1], pose[2]) :
                     pose \in NodePoses}
    /\ prevCalibrationType = "WORK_MODE"
    /\ motorCmd = Zero8
    /\ call = NoCall
    /\ ticks = 0
    /\ posed = TRUE
    /\ resetStreak = NoStreak
    /\ node = [NodeConstructed EXCEPT !.phase = "running"]
    /\ now = 0
    /\ loop = LoopNotStarted
    /\ readers = ReadersNotStarted

ArmCallback(data) ==
    /\ node.phase = "running"
    /\ node' = [node EXCEPT !.armed_ = data]
    /\ UNCHANGED << state_, prevCalibrationType, motorCmd, call, ticks, posed,
                    resetStreak, now, loop, readers >>

CalibrationCallback(data) ==
    /\ node.phase = "running"
    /\ node' = [node EXCEPT !.calibrationType_ = data]
    /\ UNCHANGED << state_, prevCalibrationType, motorCmd, call, ticks, posed,
                    resetStreak, now, loop, readers >>

\* what a write past the end of actuators_ may leave of the process: it
\* goes on, or the memory it has overwritten stops it
OverrunOutcomes == {"running", "corrupted"}

\* the copy loop runs idx up to msg->axes.size(), whatever the size of
\* actuators_: operator[] does not grow the vector, and an index of 8 or
\* more is a write outside it
ActuatorsCallback(axes) ==
    /\ node.phase = "running"
    /\ \E outcome \in IF Len(axes) > 8 THEN OverrunOutcomes ELSE {"running"} :
          node' = [node EXCEPT
                      !.actuators_ = actuatorsCallback(node.actuators_, axes,
                                                       node.scenarioType),
                      !.delivered = node.delivered \cup
                          {actuatorsCallback(node.actuators_, axes,
                                             node.scenarioType)},
                      !.overrun = node.overrun \/ Len(axes) > 8,
                      !.phase = outcome]
    /\ UNCHANGED << state_, prevCalibrationType, motorCmd, call, ticks, posed,
                    resetStreak, now, loop, readers >>

\* what every iteration does around its call: it counts itself, publishes
\* the state to the communicator and sleeps until its deadline
IterationEnds(path, crnt_time, measured, stall) ==
    /\ loop' = [loop EXCEPT !.crnt_time = crnt_time,
                            !.armed = node.armed_,
                            !.selector = node.calibrationType_,
                            !.entered = loop.selector,
                            !.measured = measured,
                            !.path = path,
                            !.last = loop.path,
                            !.before = state_.attitude,
                            !.scenario = node.scenarioType,
                            !.published = loop.published + 1]
    /\ now' = now + TickDt + stall
    /\ ticks' = ticks + 1
    /\ UNCHANGED << posed, resetStreak, node, readers >>

\* an iteration with a calibration mode selected
IterationCalibrates(stall) ==
    /\ node.phase = "running"
    /\ ticks < MaxIterations
    /\ PathOf(node.calibrationType_, node.armed_) = "calibrate"
    /\ state_' = calibrate(state_, prevCalibrationType, node.calibrationType_)
    /\ prevCalibrationType' = node.calibrationType_
    /\ call' = [NoCall EXCEPT !.op = "calibrate"]
    /\ IterationEnds("calibrate", loop.crnt_time, 0, stall)
    /\ UNCHANGED motorCmd

\* process() called with the time measured since the armed iteration
\* before (the static crnt_time starts at the first armed iteration)
IterationProcessesAfter(prev_time, noise, stall) ==
    /\ ProcessReturns([cmd |-> node.actuators_, percent |-> TRUE],
                      ClampTimeDiff(now - prev_time),
                      process(state_, ClampTimeDiff(now - prev_time),
                              node.actuators_, TRUE, noise, 0))
    /\ IterationEnds("process", now, now - prev_time, stall)
    /\ UNCHANGED prevCalibrationType

\* an iteration in work mode, armed
IterationProcesses(noise, stall) ==
    /\ node.phase = "running"
    /\ ticks < MaxIterations
    /\ PathOf(node.calibrationType_, node.armed_) = "process"
    /\ IterationProcessesAfter(IF loop.crnt_time < 0 THEN now ELSE loop.crnt_time,
                               noise, stall)

\* an iteration in work mode, disarmed
IterationLands(stall) ==
    /\ node.phase = "running"
    /\ ticks < MaxIterations
    /\ PathOf(node.calibrationType_, node.armed_) = "land"
    /\ state_' = land(state_)
    /\ call' = [NoCall EXCEPT !.op = "land"]
    /\ IterationEnds("land", loop.crnt_time, 0, stall)
    /\ UNCHANGED << prevCalibrationType, motorCmd >>

ProceedDynamics(noise, stall) ==
    \/ IterationCalibrates(stall)
    \/ IterationProcesses(noise, stall)
    \/ IterationLands(stall)

NextLoop ==
    \/ \E data \in BOOLEAN : ArmCallback(data)
    \/ \E data \in LoopSelectors : CalibrationCallback(data)
    \/ \E axes \in ActuatorMessages : ActuatorsCallback(axes)
    \/ \E noise \in WindNoise, stall \in Stalls : ProceedDynamics(noise, stall)

SpecLoop == InitLoop /\ [][NextLoop]_vars


\* C11, as stated: every iteration that read the vehicle as disarmed
\* invoked land(), whatever the calibration selector and the actuators.
C11_DisarmedIterationLands ==
    (loop.path # "none" /\ ~loop.armed) => (loop.path = "land" /\ call.op = "land")

\* C12: process() called by the loop gets an elapsed time of at most 10
\* nominal periods, whatever was measured.
C12_ElapsedTimeAtMostTenPeriods ==
    (loop.path = "process") =>
        /\ call.op = "process"
        /\ call.dt <= 10 * TickDt
        /\ call.dt <= loop.measured

\* the first armed iteration after a disarmed one that overslept: more than
\* 10 periods were measured and 10 were passed
C12_Witness ==
    /\ loop.path = "process"
    /\ loop.last = "land"
    /\ loop.measured > 10 * TickDt
    /\ call.dt = 10 * TickDt
    /\ state_.position[3] < 0


---------------------------------------------------------------------------
(* The calibration selector driven through all its modes: the callback of  *)
(* /uav/calibration and the iterations of the loop, the vehicle disarmed.  *)

NextCalibration ==
    \/ \E data \in CalibrationTypes : CalibrationCallback(data)
    \/ IterationCalibrates(0)
    \/ IterationLands(0)

SpecCalibration == InitLoop /\ [][NextCalibration]_vars

MagModes ==
    {"MAG_1_NORMAL", "MAG_2_OVERTURNED", "MAG_3_HEAD_DOWN", "MAG_4_HEAD_UP",
     "MAG_5_TURNED_LEFT", "MAG_6_TURNED_RIGHT", "MAG_7_ARDUPILOT",
     "MAG_8_ARDUPILOT", "MAG_9_ARDUPILOT"}

AccModes ==
    {"ACC_1_NORMAL", "ACC_2_OVERTURNED", "ACC_3_HEAD_DOWN", "ACC_4_HEAD_UP",
     "ACC_5_TURNED_LEFT", "ACC_6_TURNED_RIGHT"}

\* the attitude a tick leaves when it starts from the mode's own quaternion
\* (no attitude at all for a mode that has none)
AttitudeOfEntry(calType) ==
    IF AssignsAttitude(calType)
    THEN IntegrateAttitude(ModeAttitude(calType), ModeAngularVel(calType),
                           DELTA_TIME)
    ELSE UnsetQ

\* C18, as stated: the first calibration tick after the selector has
\* changed into a mode leaves the attitude that one integration step makes
\* of the mode's fixed quaternion, in each of the 16 calibration modes.
C18_EntrySetsModeAttitude ==
    (loop.path = "calibrate" /\ loop.selector # loop.entered)
        => state_.attitude = AttitudeOfEntry(loop.selector)

\* C19: a calibration tick that follows a calibration tick in the same mode
\* leaves the attitude it found advanced by one integration step.
C19_SameModeOnlyIntegrates ==
    (loop.path = "calibrate" /\ loop.last = "calibrate"
        /\ loop.selector = loop.entered)
        => state_.attitude = IntegrateAttitude(loop.before,
                                               ModeAngularVel(loop.selector),
                                               DELTA_TIME)

\* a third tick in one of the rotating modes that set the attitude on
\* entry: the attitude has moved on and is not that of an entry
C19_Witness ==
    /\ loop.path = "calibrate"
    /\ loop.last = "calibrate"
    /\ loop.selector = loop.entered
    /\ loop.selector = "MAG_4_HEAD_UP"
    /\ ticks = 3
    /\ state_.attitude # loop.before
    /\ state_.attitude # AttitudeOfEntry(loop.selector)

---------------------------------------------------------------------------
(* main(): Uav_Dynamics::init() step by step, then the three detached      *)
(* threads and the callbacks of ros::spin() interleaved.  Nothing in the   *)
(* node synchronizes them.                                                 *)

MaxThreadTicks == 2
MaxReads == 1
MaxClockTicks == 1

\* the keys getParamsFromRos() asks for
SimParamKeys == {"use_sim_time", "vehicle", "dynamics", "init_pose"}

\* the keys loadTables() asks for
TableKeys ==
    {"CS_rudder_table", "CS_beta", "AoA", "AoS", "actuator_table",
     "airspeed_table", "CLPolynomial", "CSPolynomial", "CDPolynomial",
     "CmxPolynomial", "CmyPolynomial", "CmzPolynomial", "CmxAileron",
     "CmyElevator", "CmzRudder", "prop", "actuatorTimeConstants"}

\* the keys of the || chain of loadParams(), in its order
VehicleParamKeys ==
    {"mass", "gravity", "atmoRho", "wingArea", "characteristicLength",
     "propellersLocationX", "propellersLocationY", "propellersLocationZ",
     "mainEngineLocationX", "actuatorMin", "actuatorMax", "accVariance",
     "gyroVariance"}

\* the keys Sensors::init() asks for
SensorKeys == {"lat_ref", "lon_ref", "alt_ref"}

\* what the parameter server may lack when the node starts.  gyroVariance
\* is the last key of the chain of loadParams(): without it every other
\* member of params_ is loaded and only the gyroscope noise, which no
\* operation of the simulator reads back, is left as it was.
ParameterServers ==
    { {}, {"init_pose"}, {"CS_rudder_table"}, {"gyroVariance"}, {"inertia"},
      {"lat_ref"} }

InitStartup ==
    /\ state_ \in {Constructed(g) : g \in UninitGravity}
    /\ prevCalibrationType = "WORK_MODE"
    /\ motorCmd = Zero8
    /\ call = NoCall
    /\ ticks = 0
    /\ posed = FALSE
    /\ resetStreak = NoStreak
    /\ node \in {[NodeConstructed EXCEPT !.missing = missing] :
                    missing \in ParameterServers}
    /\ now = 0
    /\ loop = LoopNotStarted
    /\ readers = ReadersNotStarted

simulatorVars == << state_, prevCalibrationType, motorCmd, call, ticks, posed,
                    resetStreak >>

\* init(): getParamsFromRos() returns -1 when a simulator parameter is
\* missing; main() then calls ros::shutdown() and returns -1
GetParamsFromRos ==
    /\ node.phase = "constructed"
    /\ node' = IF node.missing \cap SimParamKeys # {}
               THEN [node EXCEPT !.phase = "failed", !.ok = FALSE]
               ELSE [node EXCEPT !.phase = "got_params"]
    /\ UNCHANGED << simulatorVars, now, loop, readers >>

\* InnoVtolDynamicsSim::init(): loadTables() throws on a missing table and
\* nothing catches it; loadParams() leaves its if-branch empty, then throws
\* on a missing inertia table; init() returns 0
loadParams(missing) ==
    IF missing \cap VehicleParamKeys = {} THEN "loaded" ELSE "partial"

\* initDynamicsSimulator() for dynamics inno_vtol: the simulator's init(),
\* then setInitialPosition() with the normalized init_pose
InitDynamicsSimulator(pose) ==
    /\ node.phase = "got_params"
    /\ IF node.missing \cap TableKeys # {}
       THEN /\ node' = [node EXCEPT !.phase = "terminated", !.ok = FALSE]
            /\ UNCHANGED << state_, posed >>
       ELSE IF "inertia" \in node.missing
       THEN /\ node' = [node EXCEPT !.phase = "terminated", !.ok = FALSE,
                                    !.params = loadParams(node.missing)]
            /\ UNCHANGED << state_, posed >>
       ELSE /\ node' = [node EXCEPT !.phase = "simulator",
                                    !.params = loadParams(node.missing)]
            /\ state_' = setInitialPosition(state_, pose[1], pose[2])
            /\ posed' = TRUE
    /\ UNCHANGED << prevCalibrationType, motorCmd, call, ticks, resetStreak,
                    now, loop, readers >>

\* initSensors(): the three subscriptions, then Sensors::init(), which
\* returns -1 without the reference position
InitSensors ==
    /\ node.phase = "simulator"
    /\ node' = IF node.missing \cap SensorKeys # {}
               THEN [node EXCEPT !.phase = "failed", !.ok = FALSE]
               ELSE [node EXCEPT !.phase = "sensors"]
    /\ UNCHANGED << simulatorVars, now, loop, readers >>

\* initCalibration() returns 0; the visualizator's init() is taken to
\* return 0; startClockAndThreads() creates the timer and the three
\* threads and detaches them; main() enters ros::spin()
StartClockAndThreads ==
    /\ node.phase = "sensors"
    /\ node' = [node EXCEPT !.phase = "running"]
    /\ loop' = [loop EXCEPT !.completed =
                   { << state_.position, state_.attitude >> }]
    /\ UNCHANGED << simulatorVars, now, readers >>

\* the process is alive and its threads may take a step
Alive == node.phase = "running"

\* simulationLoopTimerCallback() with use_sim_time: the simulated clock
\* advances by dt_secs_ and is published
SimulationLoopTimerCallback ==
    /\ Alive
    /\ node.ok
    /\ node.spin.pc = "idle"
    /\ node.currentTime_ < MaxClockTicks
    /\ node' = [node EXCEPT !.currentTime_ = node.currentTime_ + 1]
    /\ UNCHANGED << simulatorVars, now, loop, readers >>

\* a callback ros::spin() dispatches: one at a time, none after shutdown
Dispatched(callback) ==
    /\ node.ok
    /\ node.spin.pc = "idle"
    /\ callback

\* scenarioCallback(): the stall emulation it starts and stops belongs to
\* the ice status sensor
ScenarioCallback(data) ==
    /\ node.phase = "running"
    /\ node' = [node EXCEPT !.scenarioType = data]
    /\ UNCHANGED << simulatorVars, now, loop, readers >>

\* actuatorsCallback(), the copy loop up to index upto - 1
ActuatorsCallbackBegins(axes, upto) ==
    /\ Alive
    /\ node.ok
    /\ node.spin.pc = "idle"
    /\ node' = [node EXCEPT
                   !.spin = [pc |-> "copying", axes |-> axes],
                   !.actuators_ = [idx \in 1..8 |->
                                      IF idx <= upto /\ idx <= Len(axes)
                                      THEN axes[idx]
                                      ELSE node.actuators_[idx]]]
    /\ UNCHANGED << simulatorVars, now, loop, readers >>

\* actuatorsCallback(), the rest of the copy loop
ActuatorsCallbackCopies ==
    /\ Alive
    /\ node.spin.pc = "copying"
    /\ node' = [node EXCEPT
                   !.spin = [node.spin EXCEPT !.pc = "copied"],
                   !.actuators_ = actuatorsCallback(node.actuators_,
                                                    node.spin.axes, 0)]
    /\ UNCHANGED << simulatorVars, now, loop, readers >>

\* actuatorsCallback(), if (_scenarioType == 1) actuators_[7] = 0.0
ActuatorsCallbackEnds ==
    /\ Alive
    /\ node.spin.pc = "copied"
    /\ node' = [node EXCEPT
                   !.spin = [pc |-> "idle", axes |-> << >>],
                   !.actuators_ = actuatorsCallback(node.actuators_,
                                                    node.spin.axes,
                                                    node.scenarioType),
                   !.delivered = node.delivered \cup
                       {actuatorsCallback(node.actuators_, node.spin.axes,
                                          node.scenarioType)}]
    /\ UNCHANGED << simulatorVars, now, loop, readers >>

\* while(ros::ok()) of proceedDynamics(), then the two tests that choose
\* the branch
DynamicsTestsOk ==
    /\ Alive
    /\ loop.pc = "head"
    /\ ticks < MaxThreadTicks
    /\ loop' = IF node.ok
               THEN [loop EXCEPT !.pc = "enter",
                                 !.armed = node.armed_,
                                 !.selector = node.calibrationType_,
                                 !.entered = loop.selector,
                                 !.path = PathOf(node.calibrationType_,
                                                 node.armed_),
                                 !.last = loop.path,
                                 !.before = state_.attitude]
               ELSE [loop EXCEPT !.pc = "done"]
    /\ UNCHANGED << simulatorVars, node, now, readers >>

\* land() as far as state_.position[2] = 0.00
landBegun(s) ==
    [s EXCEPT !.Fspecific = << 0, 0, -gravity >>,
              !.linearVel = Zero3,
              !.position = << s.position[1], s.position[2], 0 >>]

\* calibrate() as far as the end of its switch
calibrateBegun(s, prev, calType) ==
    [s EXCEPT !.linearVel = IF calType = "AIRSPEED"
                            THEN << 10000, 10000, 0 >> ELSE Zero3,
              !.position = << s.position[1], s.position[2], 0 >>,
              !.angularVel = ModeAngularVel(calType),
              !.attitude = IF AssignsAttitude(calType)
                              /\ (AssignsAttitudeAlways(calType)
                                    \/ prev # calType)
                           THEN ModeAttitude(calType)
                           ELSE s.attitude]

\* the call of an iteration has written part of state_; result is what it
\* will have written when it returns
CallBegins(begun, result) ==
    /\ state_' = begun
    /\ loop' = [loop EXCEPT !.pc = "inside", !.result = result]
    /\ UNCHANGED << ticks, posed, resetStreak, node, now, readers >>

DynamicsCalibrates ==
    /\ Alive
    /\ loop.pc = "enter"
    /\ loop.path = "calibrate"
    /\ CallBegins(calibrateBegun(state_, prevCalibrationType, loop.selector),
                  calibrate(state_, prevCalibrationType, loop.selector))
    /\ prevCalibrationType' = loop.selector
    /\ call' = [NoCall EXCEPT !.op = "calibrate", !.completed = FALSE]
    /\ UNCHANGED motorCmd

\* process() has read actuators_ and integrated; the ground test and the
\* stored parameters are still to come
ProcessBegins(cmd, dtSecs, r) ==
    /\ CallBegins(r.integrated, r.state)
    /\ motorCmd' = r.motorCmd
    /\ call' = [NoCall EXCEPT !.op = "process",
                              !.cmd = cmd,
                              !.percent = TRUE,
                              !.dt = dtSecs,
                              !.target = r.target,
                              !.out = r.out,
                              !.hit = r.hit,
                              !.completed = FALSE]
    /\ UNCHANGED prevCalibrationType

DynamicsProcessesAfter(prev_time, noise) ==
    /\ ProcessBegins(node.actuators_, ClampTimeDiff(now - prev_time),
                     process(state_, ClampTimeDiff(now - prev_time),
                             node.actuators_, TRUE, noise, 0))

DynamicsProcesses(noise) ==
    /\ Alive
    /\ loop.pc = "enter"
    /\ loop.path = "process"
    /\ DynamicsProcessesAfter(IF loop.crnt_time < 0 THEN now
                              ELSE loop.crnt_time, noise)

DynamicsLands ==
    /\ Alive
    /\ loop.pc = "enter"
    /\ loop.path = "land"
    /\ CallBegins(landBegun(state_), land(state_))
    /\ call' = [NoCall EXCEPT !.op = "land", !.completed = FALSE]
    /\ UNCHANGED << prevCalibrationType, motorCmd >>

\* the call returns; publishStateToCommunicator() reads the state on this
\* thread; sleep_until() returns stall after the deadline
DynamicsSleeps(stall) ==
    /\ Alive
    /\ loop.pc = "inside"
    /\ state_' = loop.result
    /\ call' = [call EXCEPT !.completed = TRUE]
    /\ loop' = [loop EXCEPT
                   !.pc = "head",
                   !.result = << >>,
                   !.completed = loop.completed \cup
                       { << loop.result.position, loop.result.attitude >> },
                   !.crnt_time = IF loop.path = "process" THEN now
                                 ELSE loop.crnt_time,
                   !.published = loop.published + 1]
    /\ now' = now + TickDt + stall
    /\ ticks' = ticks + 1
    /\ UNCHANGED << prevCalibrationType, motorCmd, posed, resetStreak, node,
                    readers >>

\* while(ros::ok()) of performLogging()
LoggingTestsOk ==
    /\ Alive
    /\ readers.diagnostics.pc = "head"
    /\ readers.diagnostics.iterations < MaxReads
    /\ readers' = [readers EXCEPT !.diagnostics.pc =
                      IF node.ok THEN "log" ELSE "done"]
    /\ UNCHANGED << simulatorVars, node, now, loop >>

\* mutant of PerformLogging: the diagnostics loop lands the vehicle
PerformLoggingLanding ==
    /\ Alive
    /\ readers.diagnostics.pc = "log"
    /\ readers' = [readers EXCEPT
                      !.diagnostics.pc = "head",
                      !.diagnostics.pose = state_.position,
                      !.diagnostics.iterations =
                          readers.diagnostics.iterations + 1]
    /\ state_' = land(state_)
    /\ UNCHANGED << prevCalibrationType, motorCmd, call, ticks, posed,
                    resetStreak, node, now, loop >>

\* the body of performLogging(): the log line with armed_, actuators_ and
\* getVehiclePosition(), then the sleep
PerformLogging ==
    /\ Alive
    /\ readers.diagnostics.pc = "log"
    /\ readers' = [readers EXCEPT
                      !.diagnostics.pc = "head",
                      !.diagnostics.pose = state_.position,
                      !.diagnostics.iterations =
                          readers.diagnostics.iterations + 1]
    /\ UNCHANGED << simulatorVars, node, now, loop >>

\* while(ros::ok()) of publishToRos()
PublishTestsOk ==
    /\ Alive
    /\ readers.publish.pc = "head"
    /\ readers.publish.iterations < MaxReads
    /\ readers' = [readers EXCEPT !.publish.pc =
                      IF node.ok THEN "position" ELSE "done"]
    /\ UNCHANGED << simulatorVars, node, now, loop >>

\* publishTf(): the transform is built from the vehicle's position ...
PublishReadsPosition ==
    /\ Alive
    /\ readers.publish.pc = "position"
    /\ readers' = [readers EXCEPT !.publish.pc = "attitude",
                                  !.publish.position = state_.position]
    /\ UNCHANGED << simulatorVars, node, now, loop >>

\* ... and from its attitude; then the sleep
PublishReadsAttitude ==
    /\ Alive
    /\ readers.publish.pc = "attitude"
    /\ readers' = [readers EXCEPT
                      !.publish.pc = "head",
                      !.publish.attitude = state_.attitude,
                      !.publish.iterations = readers.publish.iterations + 1]
    /\ UNCHANGED << simulatorVars, node, now, loop >>

\* ros::shutdown(), as the SIGINT handler of ros::init() requests it
Shutdown ==
    /\ Alive
    /\ node.ok
    /\ node' = [node EXCEPT !.ok = FALSE]
    /\ UNCHANGED << simulatorVars, now, loop, readers >>

\* ros::spin() returns once ros::ok() is false and main() returns 0: the
\* process ends, and its detached threads with it wherever they are
MainReturns ==
    /\ Alive
    /\ ~node.ok
    /\ node.spin.pc = "idle"
    /\ node' = [node EXCEPT !.phase = "exited"]
    /\ UNCHANGED << simulatorVars, now, loop, readers >>

\* init() with each of the parameter servers, then the loop of a node that
\* got as far as starting it
NextStartup ==
    \/ GetParamsFromRos
    \/ \E pose \in NodePoses : InitDynamicsSimulator(pose)
    \/ InitSensors
    \/ StartClockAndThreads
    \/ \E data \in BOOLEAN : ArmCallback(data)
    \/ \E noise \in WindNoise : IterationProcesses(noise, 0)
    \/ IterationLands(0)

SpecStartup == InitStartup /\ [][NextStartup]_vars

\* the pose the interleaved threads start from
ThreadPoses == { << << 0, 0, 0 >>, Attitudes.identity >> }

\* sleep_until() of the dynamics thread returning late
ThreadStalls == {12 * TickDt}

\* init() has returned 0 and main() is in ros::spin()
InitThreads ==
    /\ state_ \in {setInitialPosition(Constructed(gravity), pose[1], pose[2]) :
                     pose \in ThreadPoses}
    /\ prevCalibrationType = "WORK_MODE"
    /\ motorCmd = Zero8
    /\ call = NoCall
    /\ ticks = 0
    /\ posed = TRUE
    /\ resetStreak = NoStreak
    /\ node = [NodeConstructed EXCEPT !.phase = "running",
                                      !.params = "loaded"]
    /\ now = 0
    /\ loop \in {[LoopNotStarted EXCEPT !.completed = { << pose[1], pose[2] >> }] :
                    pose \in ThreadPoses}
    /\ readers = ReadersNotStarted

NextThreads ==
    \/ \E data \in BOOLEAN : Dispatched(ArmCallback(data))
    \/ \E data \in LoopSelectors : Dispatched(CalibrationCallback(data))
    \/ \E axes \in ActuatorMessages : ActuatorsCallbackBegins(axes, 4)
    \/ ActuatorsCallbackCopies
    \/ ActuatorsCallbackEnds
    \/ DynamicsTestsOk
    \/ DynamicsCalibrates
    \/ \E noise \in WindNoise : DynamicsProcesses(noise)
    \/ DynamicsLands
    \/ \E stall \in ThreadStalls : DynamicsSleeps(stall)
    \/ LoggingTestsOk
    \/ PerformLogging
    \/ PublishTestsOk
    \/ PublishReadsPosition
    \/ PublishReadsAttitude
    \/ Shutdown
    \/ MainReturns

SpecThreads == InitThreads /\ [][NextThreads]_vars

---------------------------------------------------------------------------
(* The node with every actor that runs beside the dynamics loop: the four  *)
(* callbacks, the timer and the two reader loops; the iterations of the    *)
(* dynamics loop taken whole.                                              *)

MaxNodeTicks == 1

\* an iteration of the dynamics loop, as long as the bound allows one
Scheduled(iteration) ==
    /\ ticks < MaxNodeTicks
    /\ iteration

NextNode ==
    \/ \E data \in BOOLEAN : Dispatched(ArmCallback(data))
    \/ \E data \in LoopSelectors : Dispatched(CalibrationCallback(data))
    \/ \E data \in {0, 1} : Dispatched(ScenarioCallback(data))
    \/ \E axes \in ActuatorMessages : Dispatched(ActuatorsCallback(axes))
    \/ SimulationLoopTimerCallback
    \/ Scheduled(IterationCalibrates(0))
    \/ \E noise \in WindNoise : Scheduled(IterationProcesses(noise, 0))
    \/ Scheduled(IterationLands(0))
    \/ LoggingTestsOk
    \/ PerformLogging
    \/ PublishTestsOk
    \/ PublishReadsPosition
    \/ PublishReadsAttitude

SpecNode == InitThreads /\ [][NextNode]_vars

\* C13: a step of the publish loop, of the diagnostics loop, of the timer
\* callback or of one of the four callbacks (a step that changes a member
\* of the node or the position of a reader loop) leaves every field of the
\* vehicle state as it was.
C13_OnlyTheDynamicsLoopWrites ==
    [][(node' # node \/ readers' # readers) => state_' = state_]_vars

\* every other actor has taken its turn after the dynamics loop had moved
\* the vehicle, and the readers hold what the loop left
C13_Witness ==
    /\ ticks > 0
    /\ call.op = "calibrate"
    /\ node.armed_
    /\ node.scenarioType = 1
    /\ node.actuators_ # Zero8
    /\ node.currentTime_ > 0
    /\ readers.diagnostics.iterations > 0
    /\ readers.publish.iterations > 0
    /\ readers.publish.attitude = state_.attitude
    /\ state_.attitude # state_.initialAttitude

\* C14, as stated: what a reader loop has read in an iteration is the
\* vehicle state as one completed update of the dynamics loop left it (or
\* as init() left it): the position of the diagnostics line, and the
\* position together with the attitude of the published transform.
C14_ReadersSeeCompletedUpdates ==
    /\ readers.diagnostics.iterations > 0 =>
          readers.diagnostics.pose \in {c[1] : c \in loop.completed}
    /\ (readers.publish.iterations > 0 /\ readers.publish.pc = "head") =>
          << readers.publish.position, readers.publish.attitude >>
              \in loop.completed

\* C15, as stated: the vector a process() call of the dynamics loop has
\* consumed is what actuators_ held when no actuatorsCallback() was
\* running: the initial zeros or one message after its scenario override.
C15_ConsumedCommandIsOneMessage ==
    (call.op = "process") => call.cmd \in node.delivered

\* C16, as stated: when the process ends after the stop signal, each of the
\* three loops has left its last iteration behind: it is at its loop head
\* or has returned.
C16_LoopsFinishTheirIteration ==
    (node.phase = "exited") =>
        /\ loop.pc \in {"head", "done"}
        /\ readers.diagnostics.pc \in {"head", "done"}
        /\ readers.publish.pc \in {"head", "done"}

\* C17, as stated: with a required key missing from the parameter server
\* init() does not come as far as starting the timer and the threads, and
\* no iteration of the dynamics loop runs.
C17_MissingKeyStopsStartup ==
    (node.missing # {}) => (node.phase # "running" /\ ticks = 0)

\* C24: an iteration of the dynamics loop has invoked exactly the operation
\* the fixed priority selects from the selector and the arm state it read
\* (calibrate before process before land), so process never runs disarmed
\* or with a calibration mode selected, and the state has been published to
\* the communicator once per iteration.
C24_OneCallByFixedPriority ==
    (loop.path # "none") =>
        /\ loop.path = call.op
        /\ call.op \in {"calibrate", "process", "land"}
        /\ (call.op = "calibrate") <=> (loop.selector # "WORK_MODE")
        /\ (call.op = "process") <=> (loop.selector = "WORK_MODE" /\ loop.armed)
        /\ (call.op = "land") <=> (loop.selector = "WORK_MODE" /\ ~loop.armed)
        /\ loop.published = ticks

\* an armed iteration with a calibration mode selected, after an armed
\* iteration in work mode
C24_Witness ==
    /\ loop.path = "calibrate"
    /\ loop.last = "process"
    /\ loop.armed
    /\ loop.published = 2

---------------------------------------------------------------------------
(* Command messages of every length and the scenario selector, with the    *)
(* iterations of an armed or disarmed loop in work mode.                   *)

\* axes of the messages on /uav/actuators: fewer than 8, 8 and more than 8
CommandMessages ==
    { << 300, 300, 300, 300, 400, 400 >>,
      << 700, 700, 700, 700, 500, 500, 500, 600 >>,
      << 100, 100, 100, 100, 200, 200, 200, 800, 900 >> }

NextCommands ==
    \/ \E data \in BOOLEAN : Dispatched(ArmCallback(data))
    \/ \E data \in {0, 1} : Dispatched(ScenarioCallback(data))
    \/ \E axes \in CommandMessages : Dispatched(ActuatorsCallback(axes))
    \/ \E noise \in WindNoise : Scheduled(IterationProcesses(noise, 0))
    \/ Scheduled(IterationLands(0))

SpecCommands == InitThreads /\ [][NextCommands]_vars

\* C28, as stated: a process() call of an iteration that ran while
\* _scenarioType was 1 has consumed a command vector whose channel 7 is 0.
C28_FaultScenarioCutsThrottle ==
    (loop.path = "process" /\ loop.scenario = 1) => call.cmd[8] = 0

\* C30, as stated: actuators_ holds 8 elements and no actuatorsCallback()
\* has written an element outside indices 0..7, whatever the number of
\* axes of the messages delivered.
C30_CallbackWritesInsideTheBuffer ==
    /\ Len(node.actuators_) = 8
    /\ ~node.overrun

---------------------------------------------------------------------------
(* The table functions on their own: the row search, thruster(),           *)
(* griddata(), calculatePolynomialUsingTable() and                         *)
(* calculateDynamicPressure(), applied to tables and arguments drawn from  *)
(* bounded sets.                                                           *)

\* the longest breakpoint column
MaxTableRows == 4

\* strictly monotonic n x 1 breakpoint columns, 5 .. 5n and 5n .. 5
IncreasingColumn(n) == [i \in 1..n |-> << 5000 * i >>]

DecreasingColumn(n) == [i \in 1..n |-> << 5000 * (n + 1 - i) >>]

BreakpointColumns ==
    { IncreasingColumn(n) : n \in 2..MaxTableRows }
      \cup { DecreasingColumn(n) : n \in 2..MaxTableRows }

\* arguments below, on, between and above the breakpoints
TableQueries ==
    { -1000, 500, 5000, 7500, 10000, 10100, 15000, 15100, 20000, 25000,
      29000 }

\* a propeller table over a breakpoint column:
\* rows of << control, thrust, torque, current, rpm >>
PropRows(column) ==
    [i \in 1..Len(column) |->
       << column[i][1], 2000 * i, 100 * i, 1000 * i, 60000 * i >>]

\* a grid z(y, x) over a breakpoint column on both axes
GridRows(column) ==
    [i \in 1..Len(column) |-> [j \in 1..Len(column) |-> 100 * (i + j)]]

\* polynomial tables: without rows, 1 x 2, 2 x 1, 2 x 2 with equal
\* breakpoints, 2 x 2 and 2 x 3 as the unit tests pass them, and 3 x 3
\* tables whose last two breakpoints are equal
PolynomialTables ==
    { << >>,
      << << 0, 0 >> >>,
      << << 0 >>, << 1000 >> >>,
      << << 0, 0 >>, << 0, 0 >> >>,
      << << 0, 0 >>, << 1000, 1000 >> >>,
      << << 0, 0, 1000 >>, << 1000, 1000, 2000 >> >>,
      << << 0, 0, 1000 >>, << 1000, 1000, 2000 >>, << 1000, 3000, 4000 >> >>,
      << << 1000, 3000, 4000 >>, << 0, 1000, 2000 >>, << 0, 0, 1000 >> >> }

\* the caller's coefficient vectors, of 1, 2 and 7 elements
CoeffVectors ==
    { << 777 >>, << 777, 888 >>, << 1, 2, 3, 4, 5, 6, 7 >> }

\* motorsRpm[idx] before a thruster() call
OldRpm == 123000

InitTables ==
    /\ state_ = Constructed(gravity)
    /\ prevCalibrationType = "WORK_MODE"
    /\ motorCmd = << >>
    /\ \E column \in BreakpointColumns, table \in PolynomialTables,
          value \in TableQueries, coeffs \in CoeffVectors :
         call = [op |-> "none", column |-> column, table |-> table,
                 value |-> value, coeffs |-> coeffs, out |-> << >>]
    /\ ticks = 0
    /\ posed = FALSE
    /\ resetStreak = NoStreak
    /\ NodeIdle

TablesCalled(op, out) ==
    /\ call' = [call EXCEPT !.op = op, !.out = out]
    /\ UNCHANGED nodeVars
    /\ UNCHANGED << state_, prevCalibrationType, motorCmd, ticks, posed,
                    resetStreak >>

FindPrevRowIdxInMonotonicSequence ==
    TablesCalled("findPrevRowIdxInMonotonicSequence",
                 findPrevRowIdxInMonotonicSequence(call.column, call.value))

Thruster ==
    TablesCalled("thruster",
                 thrusterOn(PropRows(call.column), call.value, OldRpm))

Griddata ==
    TablesCalled("griddata",
                 griddata(call.column, call.column, GridRows(call.column),
                          call.value, call.value))

CalculatePolynomialUsingTable ==
    TablesCalled("calculatePolynomialUsingTable",
                 calculatePolynomialUsingTable(call.table, call.value,
                                               call.coeffs))

CalculateDynamicPressure ==
    TablesCalled("calculateDynamicPressure",
                 calculateDynamicPressure(call.value))

NextTables ==
    \/ FindPrevRowIdxInMonotonicSequence
    \/ Thruster
    \/ Griddata
    \/ CalculatePolynomialUsingTable
    \/ CalculateDynamicPressure

SpecTables == InitTables /\ [][NextTables]_vars

---------------------------------------------------------------------------
(* Properties of the table functions                                       *)

\* the table of the last call has fewer than 2 rows or fewer than 2
\* columns, or its two rows around the airspeed have breakpoints less than
\* 0.001 apart
DegenerateTable ==
    LET rows == Len(call.table)
        cols == IF rows = 0 THEN 0 ELSE Len(call.table[1])
    IN  \/ rows < 2
        \/ cols < 2
        \/ LET prev == findPrevRowIdxInMonotonicSequence(call.table, call.value)
           IN  Abs(call.table[prev + 2][1] - call.table[prev + 1][1]) < 1

\* C21: calculatePolynomialUsingTable returns failure, leaves every element
\* of the caller's coefficient vector as it was and takes no quotient by
\* the breakpoint step when the table has fewer than 2 rows or fewer than
\* 2 columns or the two breakpoints around the airspeed are less than
\* 0.001 apart.
C21_DegenerateTableFailsWithoutWriting ==
    (call.op = "calculatePolynomialUsingTable" /\ DegenerateTable)
        => /\ ~call.out.ok
           /\ call.out.coeffs = call.coeffs
           /\ ~call.out.divided

\* a call with a 3 x 3 table and room for its coefficients failed on the
\* equal breakpoints of its last two rows
C21_Witness ==
    /\ call.op = "calculatePolynomialUsingTable"
    /\ Len(call.table) = 3
    /\ Len(call.coeffs) >= 2
    /\ DegenerateTable
    /\ ~call.out.ok
    /\ call.out.coeffs = call.coeffs

\* atmoRho * V^2 * wingArea for the argument of the last call, the three
\* products taken in another order
RhoVSquaredArea ==
    Mul(Mul(atmoRho, wingArea), Mul(call.value, call.value))

\* what the rounding of three fixed-point products may add to x: two
\* units and a thousandth of x
ProductRounding(x) == 2 + Abs(x) \div 1000

RowsReached(strict) ==
    LET n == Len(call.column)
        decreasing == call.column[1][1] > call.column[n][1]
    IN  { i \in 0..(n - 1) :
            LET b == call.column[i + 1][1]
            IN  IF decreasing
                THEN (IF strict THEN b > call.value ELSE b >= call.value)
                ELSE (IF strict THEN b < call.value ELSE b <= call.value) }

\* the last of the rows, row 0 when there is none, limited to the last
\* row but one of the column of the last call
LastRowLimited(rows) ==
    LET last == IF rows = {} THEN 0
                ELSE CHOOSE i \in rows : \A j \in rows : j <= i
    IN  IF last > Len(call.column) - 2 THEN Len(call.column) - 2 ELSE last

\* C23 as stated: the search returns the last row whose breakpoint is <=
\* the query (>= for a decreasing column), limited so that a following
\* row exists; a query equal to an interior breakpoint selects that row.
C23_LastRowNotAfterQuery ==
    (call.op = "findPrevRowIdxInMonotonicSequence")
        => call.out = LastRowLimited(RowsReached(FALSE))

\* C23: the search returns the last row whose breakpoint is < the query
\* (> for a decreasing column), row 0 when there is none, limited so that
\* a following row exists; a query equal to an interior breakpoint selects
\* the row before that breakpoint's row.
C23_LastRowStrictlyBeforeQuery ==
    (call.op = "findPrevRowIdxInMonotonicSequence")
        => call.out = LastRowLimited(RowsReached(TRUE))

\* a query equal to the breakpoint of the interior row 2 returned row 1
C23_Witness ==
    /\ call.op = "findPrevRowIdxInMonotonicSequence"
    /\ Len(call.column) = 4
    /\ call.column[3][1] = call.value
    /\ call.out = 1

\* C25: for every monotonic column of n >= 2 rows and every query the
\* search returns a row in 0 .. n-2, and thruster() assigns thrust, torque
\* and rpm on every call.
C25_SearchLeavesAFollowingRow ==
    /\ (call.op = "findPrevRowIdxInMonotonicSequence")
          => call.out \in 0..(Len(call.column) - 2)
    /\ (call.op = "thruster")
          => /\ call.out.assigned
             /\ findPrevRowIdxInMonotonicSequence(PropRows(call.column),
                                                  call.value)
                  \in 0..(Len(call.column) - 2)

\* thruster() has assigned its results for a command above every
\* breakpoint of an increasing table
C25_Witness ==
    /\ call.op = "thruster"
    /\ call.value = 29000
    /\ call.column[1][1] < call.column[2][1]
    /\ call.out.assigned
    /\ call.out.rpm # OldRpm

---------------------------------------------------------------------------
(* Properties of the motor moments                                         *)

\* the four lift rotors have the same command and the command of the
\* forward engine gives no thrust and no torque
EqualLiftNoEngine(actuator) ==
    /\ \A idx \in 2..4 : actuator[idx] = actuator[1]
    /\ thruster(actuator[5], 0).thrust = 0
    /\ thruster(actuator[5], 0).torque = 0

\* the component-wise sum of the five per-motor moments
SumOfMmotors(s) == Accumulate5(s.Mmotors, Zero3)

\* C26: a calculateNewState call with equal commands on the four lift
\* rotors and a forward engine command of zero thrust and torque leaves
\* five motor moments whose sum is the zero vector, and with zero Maero and
\* zero angular velocity before the call the angular acceleration is zero.
C26_EqualLiftMomentsCancel ==
    [][(call'.op = "calculateNewState" /\ EqualLiftNoEngine(call'.cmd))
          => /\ SumOfMmotors(state_') = Zero3
             /\ (call'.Maero = Zero3 /\ state_.angularVel = Zero3)
                   => state_'.angularAccel = Zero3]_vars

\* a call with 50 % on the four lift rotors and zero Maero has left moments
\* that are not zero one by one, and a zero angular acceleration
C26_Witness ==
    /\ call.op = "calculateNewState"
    /\ call.cmd = Motors(50000)
    /\ call.Maero = Zero3
    /\ state_.Mmotors[1] # Zero3
    /\ state_.Mmotors[3][3] = -state_.Mmotors[1][3]
    /\ SumOfMmotors(state_) = Zero3
    /\ state_.angularAccel = Zero3

\* C27 as stated: after every calculateNewState call MmotorsTotal is the
\* component-wise sum of the five per-motor moments of that call.
C27_TotalIsSumOfMmotors ==
    (call.op = "calculateNewState")
        => state_.MmotorsTotal = SumOfMmotors(state_)

---------------------------------------------------------------------------
(* The filter state of the actuator lag                                    *)

\* x lies between a and b, the ends included
Between(a, b, x) == (a <= x /\ x <= b) \/ (b <= x /\ x <= a)

\* C29: after each updateActuators call prevActuators is the filtered
\* vector of the preceding call (the constructor's zeros before the first
\* call), crntActuators is the filtered vector just returned, and every
\* filtered channel lies between the previous filtered value and the raw
\* target, for dt >= 0 and positive time constants.
C29_LagKeepsItsFilterState ==
    [][(call'.op = "updateActuators")
          => /\ state_'.prevActuators = state_.crntActuators
             /\ (call.op = "updateActuators")
                   => state_'.prevActuators = call.out
             /\ (call.op = "none") => state_'.prevActuators = Zero8
             /\ state_'.crntActuators = call'.out
             /\ motorCmd' = call'.out
             /\ \A idx \in 1..8 :
                   Between(state_'.prevActuators[idx], call'.target[idx],
                           call'.out[idx])]_vars

\* a second call in a row has moved channel 0 strictly between a nonzero
\* previous filtered value and its target
C29_Witness ==
    /\ call.op = "updateActuators"
    /\ ticks = 2
    /\ call.dt = TickDt
    /\ state_.prevActuators[1] # 0
    /\ state_.crntActuators = call.out
    /\ state_.prevActuators[1] < call.out[1]
    /\ call.out[1] < call.target[1]

=============================================================================
